---- MODULE Spec2Model ----
(***************************************************************************)
(* Model of the structural source analyzer and chunk extractor of the      *)
(* documentation generator (backend/app/services/code_parser_service.py)   *)
(* and of the repository-level driver that runs it                         *)
(* (backend/app/services/documentation_service.py).                        *)
(*                                                                         *)
(* Source text is modelled as TLA+ strings over a small alphabet.  The     *)
(* character WideChar stands for any non-ASCII character (two bytes in     *)
(* UTF-8); FormFeed is the ASCII form feed, which str.splitlines() treats  *)
(* as a line boundary and the Python tokenizer does not.                   *)
(***************************************************************************)
EXTENDS Integers, Sequences, FiniteSets, TLC

VARIABLES
    sp_text,      \* SpanResolver: the source text read from the file
    sp_node,      \* SpanResolver: the node, as character offsets <<s, e>> into sp_text
    sp_content,   \* SpanResolver: result of _get_node_source, or NoValue before the call
    sp_pc,        \* SpanResolver: "ready" | "done" ("off" in the other specifications)
    pa_args,      \* _extract_parameters: node.args of the function definition
    pa_params,    \* _extract_parameters: its outcome [exc, params], NoOutcome before the call
    pa_pc,        \* _extract_parameters: "ready" | "done" | "off"
    dc_def,       \* docstring: the definition, [kind, name, first] with first the first statement of its body
    dc_info,      \* docstring: the record after the docstring step, <<>> before it
    dc_pc,        \* docstring: "ready" | "done" | "off"
    el_tree,      \* _get_end_line: the tree under the definition it is called on
    el_end,       \* _get_end_line: <<the line it returns>>, <<>> before the call
    el_pc,        \* _get_end_line: "ready" | "done" | "off"
    source,       \* job: RepositorySource of the request, "github" | "file_upload"
    task,         \* job: position of its background task
    repo_dir,     \* job: os.path.exists(repo_path)
    zip_file,     \* job: os.path.exists(zip_path)
    response,     \* job: what the last status or documentation request returned
    repo,               \* the .py files under repo_path, in os.walk order
    pc,                 \* position of process_repository
    fi,                 \* analyze_repository: number of files parsed so far
    ni,                 \* visitor: the node the traversal reaches next
    source_lines,       \* visitor.source_lines
    imports,            \* visitor.imports
    classes,            \* visitor.classes
    functions,          \* visitor.functions
    variables,          \* visitor.variables
    files,              \* analyze_repository: result['files']
    ci,                 \* process_repository: number of file structures flattened so far
    all_chunks,         \* process_repository: all_chunks
    repository_status,  \* repository_status[repo_id]; progress is in tenths
    documentation,      \* documentation/documentation.json: <<>> or <<its content>>
    runs,               \* number of calls of process_repository on the repository
    prev_chunks         \* all_chunks of the previous call

spanVars == <<sp_text, sp_node, sp_content, sp_pc>>
paramVars == <<pa_args, pa_params, pa_pc>>
docVars == <<dc_def, dc_info, dc_pc>>
endVars == <<el_tree, el_end, el_pc>>
jobVars == <<source, task, repo_dir, zip_file, response>>

visitorVars == <<ni, source_lines, imports, classes, functions, variables>>
repoVars == <<repo, pc, fi, visitorVars, files, ci, all_chunks, repository_status,
              documentation, runs, prev_chunks>>

vars == <<spanVars, paramVars, docVars, endVars, jobVars, repoVars>>

NoValue == "<none>"

(***************************************************************************)
(* Text helpers (Python str semantics)                                     *)
(***************************************************************************)
NewLine == "\n"
FormFeed == "\f"
WideChar == "W"

Min(a, b) == IF a < b THEN a ELSE b
Max(a, b) == IF a > b THEN a ELSE b

CharAt(s, i) == SubSeq(s, i, i)

\* s[a:b] for 0 <= a, 0 <= b: Python clamps both ends to the string
PySlice(s, a, b) ==
    LET hi == Min(b, Len(s)) IN
    IF a >= hi THEN "" ELSE SubSeq(s, a + 1, hi)

\* s[a:]
PySliceFrom(s, a) == PySlice(s, a, Len(s))

\* s[:b]
PySliceTo(s, b) == PySlice(s, 0, b)

\* number of bytes of the UTF-8 encoding of s
RECURSIVE Utf8Len(_)
Utf8Len(s) ==
    IF s = "" THEN 0
    ELSE (IF CharAt(s, 1) = WideChar THEN 2 ELSE 1) + Utf8Len(Tail(s))

RECURSIVE SplitAcc(_, _, _, _)
SplitAcc(s, seps, cur, acc) ==
    IF s = "" THEN (IF cur = "" THEN acc ELSE Append(acc, cur))
    ELSE LET c == CharAt(s, 1)
             rest == Tail(s)
         IN  IF c \in seps
             THEN SplitAcc(rest, seps, "", Append(acc, cur))
             ELSE SplitAcc(rest, seps, cur \o c, acc)

\* str.splitlines(): line boundaries are dropped, no trailing empty line;
\* of the boundaries of str.splitlines the alphabet holds \n and \f
SplitLines(s) == SplitAcc(s, {NewLine, FormFeed}, "", <<>>)

\* '\n'.join(lines)
RECURSIVE JoinLines(_)
JoinLines(lines) ==
    IF lines = <<>> THEN ""
    ELSE IF Len(lines) = 1 THEN lines[1]
    ELSE lines[1] \o NewLine \o JoinLines(Tail(lines))

RECURSIVE CountChar(_, _)
CountChar(s, c) ==
    IF s = "" THEN 0
    ELSE (IF CharAt(s, 1) = c THEN 1 ELSE 0) + CountChar(Tail(s), c)

\* offset (0-based) of the first character of the line that holds offset off,
\* lines being those of the tokenizer: only \n ends a line
RECURSIVE LineStart(_, _)
LineStart(text, off) ==
    IF off = 0 THEN 0
    ELSE IF CharAt(text, off) = NewLine THEN off
    ELSE LineStart(text, off - 1)

(***************************************************************************)
(* Positions the syntax tree gives a node that spans the characters        *)
(* s+1 .. e of text: 1-based lines, column offsets in UTF-8 bytes          *)
(***************************************************************************)
AstPosition(text, s, e) ==
    [lineno         |-> 1 + CountChar(SubSeq(text, 1, s), NewLine),
     col_offset     |-> Utf8Len(SubSeq(text, LineStart(text, s) + 1, s)),
     end_lineno     |-> 1 + CountChar(SubSeq(text, 1, e), NewLine),
     end_col_offset |-> Utf8Len(SubSeq(text, LineStart(text, e) + 1, e))]

(***************************************************************************)
(* PythonASTVisitor._get_node_source                                       *)
(***************************************************************************)
GetNodeSource(lines_, node) ==
    LET start_line == node.lineno - 1
        end_line == node.end_lineno - 1
    IN  IF start_line = end_line
        THEN PySlice(lines_[start_line + 1], node.col_offset, node.end_col_offset)
        ELSE JoinLines(<<PySliceFrom(lines_[start_line + 1], node.col_offset)>>
                       \o SubSeq(lines_, start_line + 2, end_line)
                       \o <<PySliceTo(lines_[end_line + 1], node.end_col_offset)>>)

(***************************************************************************)
(* SpanResolver on arbitrary source text                                   *)
(***************************************************************************)
MaxTextLen == 5

SpanAlphabet == {"a", " ", WideChar, NewLine, FormFeed}
CodeChars == {"a", WideChar}

RECURSIVE TextsOfLen(_)
TextsOfLen(n) ==
    IF n = 0 THEN {""}
    ELSE {t \o c : t \in TextsOfLen(n - 1), c \in SpanAlphabet}

SpanTexts == UNION {TextsOfLen(n) : n \in 1..MaxTextLen}

\* a declaration starts at the first non-blank character of its line and
\* ends with the last character of its last token; what follows it on the
\* line, if anything, is blank space (and then possibly a comment)
IsStatementStart(text, s) ==
    /\ CharAt(text, s + 1) \in CodeChars
    /\ \A i \in (LineStart(text, s) + 1)..s : CharAt(text, i) = " "

SpanNodes(text) ==
    {<<s, e>> \in (0..Len(text)) \X (1..Len(text)) :
        /\ s < e
        /\ IsStatementStart(text, s)
        /\ CharAt(text, e) \in CodeChars
        /\ (e < Len(text) => CharAt(text, e + 1) \notin CodeChars)}

SpanIdle ==
    /\ sp_text = ""
    /\ sp_node = <<0, 0>>
    /\ sp_content = NoValue
    /\ sp_pc = "off"

\* outcome of a call: exc is NoValue and params the returned list, or exc is the
\* exception raised
Returned(params) == [exc |-> NoValue, params |-> params]
Raised(e) == [exc |-> e, params |-> <<>>]
NoOutcome == Raised("<not called>")

ParamsIdle ==
    /\ pa_args = <<>>
    /\ pa_params = NoOutcome
    /\ pa_pc = "off"

DocIdle ==
    /\ dc_def = <<>>
    /\ dc_info = <<>>
    /\ dc_pc = "off"

EndIdle ==
    /\ el_tree = <<>>
    /\ el_end = <<>>
    /\ el_pc = "off"

\* no request is followed: process_repository is called on a directory that
\* is there
JobIdle ==
    /\ source = "none"
    /\ task = "off"
    /\ repo_dir = FALSE
    /\ zip_file = FALSE
    /\ response = <<>>

RepoIdle ==
    /\ repo = <<>>
    /\ pc = "off"
    /\ fi = 0
    /\ ni = 0
    /\ source_lines = <<>>
    /\ imports = <<>>
    /\ classes = <<>>
    /\ functions = <<>>
    /\ variables = <<>>
    /\ files = <<>>
    /\ ci = 0
    /\ all_chunks = <<>>
    /\ repository_status = <<>>
    /\ documentation = <<>>
    /\ runs = 0
    /\ prev_chunks = <<>>

SpanInit ==
    /\ sp_text \in SpanTexts
    /\ sp_node \in SpanNodes(sp_text)
    /\ sp_content = NoValue
    /\ sp_pc = "ready"
    /\ ParamsIdle
    /\ DocIdle
    /\ EndIdle
    /\ JobIdle
    /\ RepoIdle

\* PythonASTVisitor(content) followed by _get_node_source(node)
SpanResolve ==
    /\ sp_pc = "ready"
    /\ sp_content' = GetNodeSource(SplitLines(sp_text),
                                   AstPosition(sp_text, sp_node[1], sp_node[2]))
    /\ sp_pc' = "done"
    /\ UNCHANGED <<sp_text, sp_node, paramVars, docVars, endVars, jobVars, repoVars>>

SpanNext == SpanResolve

SpecSpan == SpanInit /\ [][SpanNext]_vars

\* the exact substring of the unmodified source delimited by the node
ExactSubstring(text, node) == SubSeq(text, node[1] + 1, node[2])

\* C3: the content of a record is the exact substring of the original source
\* delimited by the node's start and end position, for every source text
C3_SpanFidelity ==
    sp_pc = "done" => sp_content = ExactSubstring(sp_text, sp_node)

(***************************************************************************)
(* PythonASTVisitor._extract_parameters                                    *)
(*                                                                         *)
(* node.args is the ast.arguments of a definition: posonlyargs, args,      *)
(* vararg, kwonlyargs, kw_defaults, kwarg and defaults, the last holding   *)
(* the defaults of posonlyargs and args together.  An annotation or a      *)
(* default is denoted by its source text; vararg and kwarg are <<>> when   *)
(* absent and a one-element sequence otherwise.                            *)
(***************************************************************************)
IndexError == "IndexError: list index out of range"

\* d[k] = v on a dict
SetKey(d, k, v) == [x \in (DOMAIN d) \cup {k} |-> IF x = k THEN v ELSE d[x]]

\* {'name': arg.arg} and 'type' when the argument is annotated
ParamInfo(arg) ==
    IF arg.annotation # NoValue
    THEN [name |-> arg.arg, type |-> arg.annotation]
    ELSE [name |-> arg.arg]

\* for i, default in enumerate(defaults): params[default_offset + i]['default'] = ...
\* a negative list index counts from the end; an index outside the list raises
RECURSIVE ApplyDefaults(_, _, _, _)
ApplyDefaults(params, defaults, default_offset, i) ==
    IF i = Len(defaults) THEN Returned(params)
    ELSE LET j == default_offset + i
             idx == IF j < 0 THEN Len(params) + j ELSE j
         IN  IF idx < 0 \/ idx >= Len(params) THEN Raised(IndexError)
             ELSE ApplyDefaults(
                      [params EXCEPT ![idx + 1] = SetKey(@, "default", defaults[i + 1])],
                      defaults, default_offset, i + 1)

ExtractParameters(args) ==
    LET params == [i \in 1..Len(args.args) |-> ParamInfo(args.args[i])]
        defaults == args.defaults
    IN  IF defaults # <<>>
        THEN ApplyDefaults(params, defaults, Len(args.args) - Len(defaults), 0)
        ELSE Returned(params)

(***************************************************************************)
(* _extract_parameters on the parameter lists of the grammar               *)
(***************************************************************************)
MaxPosOnly == 2
MaxArgs == 3
MaxKwOnly == 1

ArgNode(prefix, i, annotated) ==
    [arg |-> prefix \o ToString(i),
     annotation |-> IF annotated THEN "int" ELSE NoValue]

\* the parameter lists def f(p1, .., /, a1, .., *v, k1, .., **w) with the last
\* nd of the positional parameters defaulted (a parameter without a default
\* cannot follow one with a default) and the keyword-only ones defaulted or not
ArgumentsSet ==
    {[posonlyargs |-> [i \in 1..p |-> ArgNode("p", i, ann)],
      args        |-> [i \in 1..a |-> ArgNode("a", i, ann)],
      vararg      |-> IF va THEN <<ArgNode("v", 1, FALSE)>> ELSE <<>>,
      kwonlyargs  |-> [i \in 1..k |-> ArgNode("k", i, ann)],
      kw_defaults |-> [i \in 1..k |-> IF kd THEN "kd" \o ToString(i) ELSE NoValue],
      kwarg       |-> IF kw THEN <<ArgNode("w", 1, FALSE)>> ELSE <<>>,
      defaults    |-> [i \in 1..nd |-> "d" \o ToString(i)]] :
        p \in 0..MaxPosOnly, a \in 0..MaxArgs, k \in 0..MaxKwOnly,
        nd \in 0..(MaxPosOnly + MaxArgs),
        va \in BOOLEAN, kw \in BOOLEAN, kd \in BOOLEAN, ann \in BOOLEAN}

ParamsInit ==
    /\ pa_args \in {x \in ArgumentsSet :
                        Len(x.defaults) <= Len(x.posonlyargs) + Len(x.args)}
    /\ pa_params = NoOutcome
    /\ pa_pc = "ready"
    /\ SpanIdle
    /\ DocIdle
    /\ EndIdle
    /\ JobIdle
    /\ RepoIdle

ParamsExtract ==
    /\ pa_pc = "ready"
    /\ pa_params' = ExtractParameters(pa_args)
    /\ pa_pc' = "done"
    /\ UNCHANGED <<pa_args, spanVars, docVars, endVars, jobVars, repoVars>>

ParamsNext == ParamsExtract

SpecParams == ParamsInit /\ [][ParamsNext]_vars

\* the formal parameters of a definition, in declaration order
FormalParameters(args) ==
    args.posonlyargs \o args.args
    \o args.vararg \o args.kwonlyargs \o args.kwarg

\* the default values of a definition, in declaration order
DeclaredDefaults(args) ==
    args.defaults \o SelectSeq(args.kw_defaults, LAMBDA d : d # NoValue)

\* C4: one parameter record per formal parameter in declaration order, and
\* exactly the last k records carry a default, the i-th default on the record
\* at position n-k+i, where k is the number of parameters that have a default
C4_DefaultAlignment ==
    pa_pc = "done" =>
        LET formals == FormalParameters(pa_args)
            dflts == DeclaredDefaults(pa_args)
            n == Len(formals)
            k == Len(dflts)
            params == pa_params.params
        IN  /\ pa_params.exc = NoValue
            /\ Len(params) = n
            /\ \A i \in 1..n : params[i].name = formals[i].arg
            /\ \A i \in 1..(n - k) : "default" \notin DOMAIN params[i]
            /\ \A i \in 0..(k - 1) :
                    /\ "default" \in DOMAIN params[n - k + i + 1]
                    /\ params[n - k + i + 1].default = dflts[i + 1]

(***************************************************************************)
(* Docstrings: ast.get_docstring(node) and the `if docstring:` that        *)
(* follows it in visit_ClassDef and _process_function                      *)
(*                                                                         *)
(* The first statement of a body is [kind, text]: kind "str" for an        *)
(* expression statement holding a string literal whose value (the literal  *)
(* without its quoting) is text, and "other" for anything else.            *)
(***************************************************************************)
\* str.split(sep): empty pieces are kept
RECURSIVE PySplitAcc(_, _, _, _)
PySplitAcc(s, sep, cur, acc) ==
    IF s = "" THEN Append(acc, cur)
    ELSE LET c == CharAt(s, 1)
             rest == Tail(s)
         IN  IF c = sep
             THEN PySplitAcc(rest, sep, "", Append(acc, cur))
             ELSE PySplitAcc(rest, sep, cur \o c, acc)

PySplit(s, sep) == PySplitAcc(s, sep, "", <<>>)

\* str.lstrip()
RECURSIVE LStrip(_)
LStrip(s) ==
    IF s # "" /\ CharAt(s, 1) = " " THEN LStrip(Tail(s)) ELSE s

\* while lines and not lines[-1]: lines.pop()
RECURSIVE DropTrailingEmpty(_)
DropTrailingEmpty(lines) ==
    IF lines # <<>> /\ lines[Len(lines)] = ""
    THEN DropTrailingEmpty(SubSeq(lines, 1, Len(lines) - 1))
    ELSE lines

\* while lines and not lines[0]: lines.pop(0)
RECURSIVE DropLeadingEmpty(_)
DropLeadingEmpty(lines) ==
    IF lines # <<>> /\ lines[1] = "" THEN DropLeadingEmpty(Tail(lines)) ELSE lines

\* inspect.cleandoc(doc), which ast.get_docstring applies (clean=True)
CleanDoc(doc) ==
    LET lines == PySplit(doc, NewLine)
        indents == {Len(lines[i]) - Len(LStrip(lines[i])) :
                        i \in {j \in 2..Len(lines) : LStrip(lines[j]) # ""}}
        stripped == [i \in 1..Len(lines) |->
                        IF i = 1 THEN LStrip(lines[1])
                        ELSE IF indents # {}
                             THEN PySliceFrom(lines[i],
                                      CHOOSE m \in indents : \A x \in indents : m <= x)
                             ELSE lines[i]]
    IN  JoinLines(DropLeadingEmpty(DropTrailingEmpty(stripped)))

\* ast.get_docstring called with clean=False: the literal's text as written
GetDocstring_Unclean(first) ==
    IF first.kind = "str" THEN <<first.text>> ELSE <<>>

\* ast.get_docstring(node): <<>> for None, else <<the cleaned text>>
GetDocstring(first) ==
    IF first.kind = "str" THEN <<CleanDoc(first.text)>> ELSE <<>>

\* docstring = ast.get_docstring(node); if docstring: info['docstring'] = docstring
AttachDocstring(info, first) ==
    LET docstring == GetDocstring(first) IN
    IF docstring # <<>> /\ docstring[1] # ""
    THEN SetKey(info, "docstring", docstring[1])
    ELSE info

(***************************************************************************)
(* The docstring step on the bodies a definition can have                  *)
(***************************************************************************)
MaxDocLen == 4

DocAlphabet == {"x", " ", NewLine}

RECURSIVE DocTextsOfLen(_)
DocTextsOfLen(n) ==
    IF n = 0 THEN {""}
    ELSE {t \o c : t \in DocTextsOfLen(n - 1), c \in DocAlphabet}

DocTexts == UNION {DocTextsOfLen(n) : n \in 0..MaxDocLen}

FirstStatements ==
    {[kind |-> "str", text |-> t] : t \in DocTexts}
    \cup {[kind |-> "other", text |-> ""]}

DocInit ==
    /\ dc_def \in {[kind |-> k, name |-> "A", first |-> f] :
                        k \in {"class", "function"}, f \in FirstStatements}
    /\ dc_info = <<>>
    /\ dc_pc = "ready"
    /\ SpanIdle
    /\ ParamsIdle
    /\ EndIdle
    /\ JobIdle
    /\ RepoIdle

\* visit_ClassDef, lines 214-217
DocClass ==
    /\ dc_pc = "ready"
    /\ dc_def.kind = "class"
    /\ dc_info' = AttachDocstring([name |-> dc_def.name], dc_def.first)
    /\ dc_pc' = "done"
    /\ UNCHANGED <<dc_def, spanVars, paramVars, endVars, jobVars, repoVars>>

\* _process_function, lines 265-268
DocFunction ==
    /\ dc_pc = "ready"
    /\ dc_def.kind = "function"
    /\ dc_info' = AttachDocstring([name |-> dc_def.name], dc_def.first)
    /\ dc_pc' = "done"
    /\ UNCHANGED <<dc_def, spanVars, paramVars, endVars, jobVars, repoVars>>

DocNext == DocClass \/ DocFunction

SpecDoc == DocInit /\ [][DocNext]_vars

HasDocstring == "docstring" \in DOMAIN dc_info

RECURSIVE NonBlank(_)
NonBlank(s) ==
    IF s = "" THEN ""
    ELSE (IF CharAt(s, 1) \in {" ", NewLine} THEN "" ELSE CharAt(s, 1))
         \o NonBlank(Tail(s))

RECURSIVE Spaces(_)
Spaces(n) == IF n = 0 THEN "" ELSE " " \o Spaces(n - 1)

RECURSIVE NewLines(_)
NewLines(n) == IF n = 0 THEN "" ELSE NewLine \o NewLines(n - 1)

\* the text is empty or holds only spaces followed only by newlines
CleansToNothing(text) ==
    \E a \in 0..Len(text) : text = Spaces(a) \o NewLines(Len(text) - a)

Names == {"f", "g"}
Kinds == {"ClassDef", "FunctionDef"}

\* def f(): ...
EmptyArguments ==
    [posonlyargs |-> <<>>, args |-> <<>>, vararg |-> <<>>, kwonlyargs |-> <<>>,
     kw_defaults |-> <<>>, kwarg |-> <<>>, defaults |-> <<>>]

\* def f(p1=d1, /): ...
PosOnlyDefaultArguments ==
    [EmptyArguments EXCEPT !.posonlyargs = <<ArgNode("p", 1, FALSE)>>,
                           !.defaults = <<"d1">>]

\* node i and the declarations that enclose it
RECURSIVE Enclosing(_, _)
Enclosing(nodes, i) ==
    IF i = 0 THEN {} ELSE {i} \cup Enclosing(nodes, nodes[i].parent)

RECURSIVE TreesOfSize(_)
TreesOfSize(n) ==
    IF n = 0 THEN {<<>>}
    ELSE UNION {{Append(t, [kind |-> k, name |-> nm, parent |-> p,
                            args |-> EmptyArguments]) :
                    k \in Kinds, nm \in Names, p \in {0} \cup Enclosing(t, n - 1)} :
                t \in TreesOfSize(n - 1)}

\* a file that parses, with at most one function whose parameter list is
\* (p1=d1, /), or a file with a syntax error after its declarations
FilesOfSize(n) ==
    UNION {{[syntax_error |-> FALSE, nodes |-> t],
            [syntax_error |-> TRUE, nodes |-> t]}
           \cup {[syntax_error |-> FALSE,
                  nodes |-> [t EXCEPT ![i].args = PosOnlyDefaultArguments]] :
                     i \in {j \in 1..n : t[j].kind = "FunctionDef"}} :
           t \in TreesOfSize(n)}

Depth(nodes, i) == Cardinality(Enclosing(nodes, i)) - 1

\* the last declaration nested in node i (i itself when there is none)
LastNested(nodes, i) ==
    CHOOSE j \in i..Len(nodes) :
        /\ i \in Enclosing(nodes, j)
        /\ \A k \in i..Len(nodes) : i \in Enclosing(nodes, k) => k <= j

\* the direct children of node i, in body order
Children(nodes, i) ==
    SelectSeq([j \in 1..Len(nodes) |-> j], LAMBDA j : nodes[j].parent = i)

RECURSIVE JoinWith(_, _)
JoinWith(pieces, sep) ==
    IF pieces = <<>> THEN ""
    ELSE IF Len(pieces) = 1 THEN pieces[1]
    ELSE pieces[1] \o sep \o JoinWith(Tail(pieces), sep)

RenderArg(arg) ==
    arg.arg \o (IF arg.annotation # NoValue THEN ": " \o arg.annotation ELSE "")

\* the parameter list as written between the parentheses of the header
RenderArguments(args) ==
    LET np == Len(args.posonlyargs)
        pos == args.posonlyargs \o args.args
        first_default == Len(pos) - Len(args.defaults)
        positional(i) ==
            RenderArg(pos[i])
            \o (IF i > first_default THEN "=" \o args.defaults[i - first_default] ELSE "")
        keyword(i) ==
            RenderArg(args.kwonlyargs[i])
            \o (IF args.kw_defaults[i] # NoValue THEN "=" \o args.kw_defaults[i] ELSE "")
    IN  JoinWith(
            [i \in 1..np |-> positional(i)]
            \o (IF np > 0 THEN <<"/">> ELSE <<>>)
            \o [i \in 1..Len(args.args) |-> positional(np + i)]
            \o (IF args.vararg # <<>> THEN <<"*" \o RenderArg(args.vararg[1])>>
                ELSE IF args.kwonlyargs # <<>> THEN <<"*">> ELSE <<>>)
            \o [i \in 1..Len(args.kwonlyargs) |-> keyword(i)]
            \o (IF args.kwarg # <<>> THEN <<"**" \o RenderArg(args.kwarg[1])>> ELSE <<>>),
            ", ")

Indent(depth) == Spaces(4 * depth)

\* the statements that have a body
CompoundKinds == {"ClassDef", "FunctionDef", "AsyncFunctionDef", "If"}

\* `name` or `name as asname`
RenderAlias(alias) ==
    alias.name \o (IF alias.asname # NoValue THEN " as " \o alias.asname ELSE "")

RenderAliases(names) == JoinWith([k \in 1..Len(names) |-> RenderAlias(names[k])], ", ")

\* the dots of a relative import
RECURSIVE Dots(_)
Dots(level) == IF level = 0 THEN "" ELSE "." \o Dots(level - 1)

\* the targets of an assignment, each followed by ` = `
RenderTargets(targets) ==
    JoinWith([k \in 1..Len(targets) |-> targets[k].text \o " = "], "")

\* statement i as written, without its indentation
StatementText(nodes, i) ==
    LET node == nodes[i] IN
    CASE node.kind = "ClassDef" -> "class " \o node.name \o ":"
      [] node.kind = "FunctionDef" ->
            "def " \o node.name \o "(" \o RenderArguments(node.args) \o "):"
      [] node.kind = "AsyncFunctionDef" ->
            "async def " \o node.name \o "(" \o RenderArguments(node.args) \o "):"
      [] node.kind = "If" -> "if c:"
      [] node.kind = "Import" -> "import " \o RenderAliases(node.names)
      [] node.kind = "ImportFrom" ->
            "from " \o Dots(node.level)
            \o (IF node.module # NoValue THEN node.module ELSE "")
            \o " import " \o RenderAliases(node.names)
      [] node.kind = "Assign" -> RenderTargets(node.targets) \o node.value

HeaderLine(nodes, i) ==
    Indent(Depth(nodes, i))
    \o StatementText(nodes, i)
    \o (IF nodes[i].kind \in CompoundKinds /\ LastNested(nodes, i) = i
        THEN " pass" ELSE "")

\* what open(file_path).read() returns
SourceText(file) ==
    JoinWith([i \in 1..Len(file.nodes) |-> HeaderLine(file.nodes, i) \o NewLine]
             \o (IF file.syntax_error THEN <<"def (:" \o NewLine>> ELSE <<>>), "")

\* the position attributes ast.parse gives node i
NodePosition(nodes, i) ==
    LET last == LastNested(nodes, i) IN
    [lineno         |-> i,
     col_offset     |-> Utf8Len(Indent(Depth(nodes, i))),
     end_lineno     |-> last,
     end_col_offset |-> Utf8Len(HeaderLine(nodes, last))]

\* the first statement of the body of node i: `pass` or a nested statement,
\* never a string literal
FirstStatement(nodes, i) == [kind |-> "other", text |-> ""]

\* the position attributes ast.parse gives the value of assignment i
ValuePosition(nodes, i) ==
    LET indent == Utf8Len(Indent(Depth(nodes, i)))
        start == indent + Utf8Len(RenderTargets(nodes[i].targets))
    IN  [lineno         |-> i,
         col_offset     |-> start,
         end_lineno     |-> i,
         end_col_offset |-> start + Utf8Len(nodes[i].value)]

(***************************************************************************)
(* PythonASTVisitor                                                        *)
(***************************************************************************)
\* _get_end_line: the tree carries end_lineno
GetEndLine(position) == position.end_lineno

\* _process_function: the function record, or the exception it raises
ProcessFunction(lines_, nodes, i) ==
    LET position == NodePosition(nodes, i)
        func_info == AttachDocstring(
                         [name |-> nodes[i].name,
                          line_range |-> <<position.lineno, GetEndLine(position)>>,
                          content |-> GetNodeSource(lines_, position)],
                         FirstStatement(nodes, i))
        extracted == ExtractParameters(nodes[i].args)
    IN  IF extracted.exc # NoValue
        THEN [exc |-> extracted.exc, info |-> <<>>]
        ELSE [exc |-> NoValue, info |-> <<SetKey(func_info, "params", extracted.params)>>]

\* visit_ClassDef up to self.classes.append(class_info): the class record with
\* the records of the function definitions of its body, or the exception raised
ClassInfo(lines_, nodes, i) ==
    LET position == NodePosition(nodes, i)
        class_info == AttachDocstring(
                          [name |-> nodes[i].name,
                           line_range |-> <<position.lineno, GetEndLine(position)>>,
                           methods |-> <<>>,
                           content |-> GetNodeSource(lines_, position)],
                          FirstStatement(nodes, i))
        items == SelectSeq(Children(nodes, i), LAMBDA j : nodes[j].kind = "FunctionDef")
        processed == [k \in 1..Len(items) |-> ProcessFunction(lines_, nodes, items[k])]
    IN  IF \E k \in 1..Len(items) : processed[k].exc # NoValue
        THEN [exc |-> processed[CHOOSE k \in 1..Len(items) :
                                    /\ processed[k].exc # NoValue
                                    /\ \A m \in 1..(k - 1) : processed[m].exc = NoValue].exc,
              info |-> <<>>]
        ELSE [exc |-> NoValue,
              info |-> <<[class_info EXCEPT
                             !.methods = [k \in 1..Len(items) |-> processed[k].info[1]]]>>]

\* the (name, line_range) of every method of every class
MethodSignatures(classes_) ==
    UNION {{<<classes_[c].methods[m].name, classes_[c].methods[m].line_range>> :
               m \in 1..Len(classes_[c].methods)} : c \in 1..Len(classes_)}

\* filter_methods_from_functions: functions left unfiltered
FilterMethodsFromFunctions_Off(classes_, functions_) == functions_

\* filter_methods_from_functions
FilterMethodsFromFunctions(classes_, functions_) ==
    SelectSeq(functions_,
              LAMBDA func : <<func.name, func.line_range>> \notin MethodSignatures(classes_))

(***************************************************************************)
(* CodeParserService                                                       *)
(***************************************************************************)
\* the record parse_python_file returns after a complete traversal
FileStructure(file_path, imports_, classes_, functions_, variables_) ==
    [file_path |-> file_path, imports |-> imports_, classes |-> classes_,
     functions |-> functions_, variables |-> variables_]

\* the record parse_python_file returns from its except clause
ErrorRecord(file_path, e) == [file_path |-> file_path, error |-> e]

\* dict.get(key, default)
Get(d, key, default) == IF key \in DOMAIN d THEN d[key] ELSE default

ClassId(file_path, class_info) == file_path \o ":class:" \o class_info.name
MethodId(file_path, class_info, method) ==
    file_path \o ":method:" \o class_info.name \o "." \o method.name
FunctionId(file_path, func) == file_path \o ":function:" \o func.name

ClassChunk(file_path, class_info) ==
    [id |-> ClassId(file_path, class_info),
     type |-> "class",
     name |-> class_info.name,
     file_path |-> file_path,
     content |-> class_info.content,
     docstring |-> Get(class_info, "docstring", ""),
     line_range |-> class_info.line_range]

MethodChunk(file_path, class_info, method) ==
    [id |-> MethodId(file_path, class_info, method),
     type |-> "method",
     name |-> method.name,
     class_name |-> class_info.name,
     file_path |-> file_path,
     content |-> method.content,
     docstring |-> Get(method, "docstring", ""),
     line_range |-> method.line_range,
     params |-> Get(method, "params", <<>>),
     returns |-> Get(method, "returns", NoValue)]

FunctionChunk(file_path, func) ==
    [id |-> FunctionId(file_path, func),
     type |-> "function",
     name |-> func.name,
     file_path |-> file_path,
     content |-> func.content,
     docstring |-> Get(func, "docstring", ""),
     line_range |-> func.line_range,
     params |-> Get(func, "params", <<>>),
     returns |-> Get(func, "returns", NoValue)]

RECURSIVE Flatten(_)
Flatten(seqs) == IF seqs = <<>> THEN <<>> ELSE seqs[1] \o Flatten(Tail(seqs))

\* the chunks whose id no earlier chunk of the sequence has
RECURSIVE DedupById(_, _)
DedupById(chunks, seen) ==
    IF chunks = <<>> THEN <<>>
    ELSE IF chunks[1].id \in seen THEN DedupById(Tail(chunks), seen)
    ELSE <<chunks[1]>> \o DedupById(Tail(chunks), seen \cup {chunks[1].id})

\* extract_chunks that keeps one chunk per id
ExtractChunks_Dedup(file_structure) ==
    LET file_path == file_structure.file_path
        classes_ == Get(file_structure, "classes", <<>>)
        functions_ == Get(file_structure, "functions", <<>>)
        methods_(c) == Get(classes_[c], "methods", <<>>)
    IN  DedupById(
            Flatten([c \in 1..Len(classes_) |->
                        <<ClassChunk(file_path, classes_[c])>>
                        \o [m \in 1..Len(methods_(c)) |->
                               MethodChunk(file_path, classes_[c], methods_(c)[m])]])
            \o [f \in 1..Len(functions_) |-> FunctionChunk(file_path, functions_[f])],
            {})

\* extract_chunks that numbers its ids with the call that made them
ExtractChunks_Counter(file_structure) ==
    LET file_path == file_structure.file_path
        classes_ == Get(file_structure, "classes", <<>>)
        functions_ == Get(file_structure, "functions", <<>>)
        methods_(c) == Get(classes_[c], "methods", <<>>)
        numbered(chunk) == [chunk EXCEPT !.id = @ \o "#" \o ToString(runs)]
    IN  Flatten([c \in 1..Len(classes_) |->
                    <<numbered(ClassChunk(file_path, classes_[c]))>>
                    \o [m \in 1..Len(methods_(c)) |->
                           numbered(MethodChunk(file_path, classes_[c], methods_(c)[m]))]])
        \o [f \in 1..Len(functions_) |-> numbered(FunctionChunk(file_path, functions_[f]))]

\* extract_chunks
ExtractChunks(file_structure) ==
    LET file_path == file_structure.file_path
        classes_ == Get(file_structure, "classes", <<>>)
        functions_ == Get(file_structure, "functions", <<>>)
        methods_(c) == Get(classes_[c], "methods", <<>>)
    IN  Flatten([c \in 1..Len(classes_) |->
                    <<ClassChunk(file_path, classes_[c])>>
                    \o [m \in 1..Len(methods_(c)) |->
                           MethodChunk(file_path, classes_[c], methods_(c)[m])]])
        \o [f \in 1..Len(functions_) |-> FunctionChunk(file_path, functions_[f])]

(***************************************************************************)
(* DocumentationService.generate_documentation                             *)
(***************************************************************************)
\* os.path.basename
RECURSIVE Basename(_)
Basename(path) ==
    IF CountChar(path, "/") = 0 THEN path
    ELSE Basename(Tail(path))

\* _format_parameters
FormatParameters(params) ==
    [i \in 1..Len(params) |->
        LET param_doc == [name |-> params[i].name,
                          type |-> Get(params[i], "type", "any"),
                          description |-> "No description available."]
        IN  IF "default" \in DOMAIN params[i]
            THEN SetKey(param_doc, "default", params[i].default)
            ELSE param_doc]

CallableDoc(func) ==
    [name |-> func.name,
     description |-> Get(func, "docstring", "No description available."),
     parameters |-> FormatParameters(Get(func, "params", <<>>)),
     returns |-> Get(func, "returns", "None")]

\* _generate_module_description
ModuleDescription(file_structure) ==
    LET classes_ == Get(file_structure, "classes", <<>>)
        functions_ == Get(file_structure, "functions", <<>>)
    IN  "This module contains " \o ToString(Len(classes_)) \o " classes and "
        \o ToString(Len(functions_)) \o " functions."
        \o (IF Len(classes_) > 0
            THEN " Classes: " \o JoinWith([c \in 1..Len(classes_) |-> classes_[c].name], ", ") \o "."
            ELSE "")
        \o (IF Len(functions_) > 0
            THEN " Functions: " \o JoinWith([f \in 1..Len(functions_) |-> functions_[f].name], ", ") \o "."
            ELSE "")

\* _generate_module_documentation
ModuleDocumentation(file_structure) ==
    LET classes_ == Get(file_structure, "classes", <<>>)
        functions_ == Get(file_structure, "functions", <<>>)
    IN  [name |-> Basename(file_structure.file_path),
         path |-> file_structure.file_path,
         description |-> ModuleDescription(file_structure),
         classes |-> [c \in 1..Len(classes_) |->
                        [name |-> classes_[c].name,
                         description |-> Get(classes_[c], "docstring", "No description available."),
                         methods |-> [m \in 1..Len(Get(classes_[c], "methods", <<>>)) |->
                                        CallableDoc(classes_[c].methods[m])]]],
         functions |-> [f \in 1..Len(functions_) |-> CallableDoc(functions_[f])]]

RepoId == "repo"

\* generate_documentation
GenerateDocumentation(repo_id, repo_files) ==
    [repository_id |-> repo_id,
     modules |-> [i \in 1..Len(repo_files) |-> ModuleDocumentation(repo_files[i])]]

(***************************************************************************)
(* DocumentationService.process_repository on one repository               *)
(***************************************************************************)
MaxNodes == 3
MaxFiles == 2
MaxRepoNodes == 2
MaxRuns == 2
MaxTwiceNodes == 2

StatusEntry(status, progress, message) ==
    [status |-> status, progress |-> progress, message |-> message]

\* the entry the clone task or the upload task leaves before it calls
\* process_repository
ClonedEntry ==
    StatusEntry("processing", 2, "Repository cloned, starting documentation generation...")
ExtractedEntry ==
    StatusEntry("processing", 6, "Repository extracted, starting documentation generation...")

FilePath(j) == RepoId \o "/m" \o ToString(j) \o ".py"

\* sequences of k files that hold at most budget declarations in all
RECURSIVE FileSeqs(_, _)
FileSeqs(k, budget) ==
    IF k = 0 THEN {<<>>}
    ELSE UNION {{<<f>> \o r : f \in FilesOfSize(n), r \in FileSeqs(k - 1, budget - n)} :
                n \in 0..budget}

WithPaths(fs) ==
    [j \in 1..Len(fs) |->
        [file_path |-> FilePath(j), syntax_error |-> fs[j].syntax_error, nodes |-> fs[j].nodes]]

\* one file of up to MaxNodes declarations, or up to MaxFiles files of up to
\* MaxRepoNodes declarations in all
Repositories ==
    {WithPaths(fs) : fs \in FileSeqs(1, MaxNodes)
                           \cup UNION {FileSeqs(k, MaxRepoNodes) : k \in 0..MaxFiles}}

RepoStart ==
    /\ pc = "call"
    /\ fi = 0
    /\ ni = 0
    /\ source_lines = <<>>
    /\ imports = <<>>
    /\ classes = <<>>
    /\ functions = <<>>
    /\ variables = <<>>
    /\ files = <<>>
    /\ ci = 0
    /\ all_chunks = <<>>
    /\ repository_status \in {ClonedEntry, ExtractedEntry}
    /\ documentation = <<>>
    /\ runs = 1
    /\ prev_chunks = <<>>
    /\ SpanIdle
    /\ ParamsIdle
    /\ DocIdle
    /\ EndIdle
    /\ JobIdle

Init ==
    /\ repo \in Repositories
    /\ RepoStart

otherVars == <<spanVars, paramVars, docVars, endVars, jobVars>>

\* process_repository, lines 35-45: the first status update and the call of
\* analyze_repository
ProcessStart ==
    /\ pc = "call"
    /\ repository_status' = StatusEntry("processing", 2, "Analyzing code structure...")
    /\ files' = <<>>
    /\ fi' = 0
    /\ pc' = "walk"
    /\ UNCHANGED <<repo, visitorVars, ci, all_chunks, documentation, runs, prev_chunks, otherVars>>

\* the visitor is gone once parse_python_file has returned
DropVisitor ==
    /\ ni' = 0
    /\ source_lines' = <<>>
    /\ imports' = <<>>
    /\ classes' = <<>>
    /\ functions' = <<>>
    /\ variables' = <<>>

\* ast.parse raises SyntaxError and nothing catches it: the exception leaves
\* analyze_repository and reaches the except clause of process_repository
ParseSyntaxError_Propagates ==
    /\ pc = "walk"
    /\ fi < Len(repo)
    /\ repo[fi + 1].syntax_error
    /\ repository_status' =
           StatusEntry("failed", 0, "Failed to generate documentation: invalid syntax")
    /\ pc' = "failed"
    /\ UNCHANGED <<repo, fi, visitorVars, files, ci, all_chunks, documentation,
                   runs, prev_chunks, otherVars>>

\* parse_python_file, lines 33-36 and 50-55: ast.parse raises SyntaxError
ParseSyntaxError ==
    /\ pc = "walk"
    /\ fi < Len(repo)
    /\ repo[fi + 1].syntax_error
    /\ files' = Append(files, ErrorRecord(repo[fi + 1].file_path, "invalid syntax"))
    /\ fi' = fi + 1
    /\ UNCHANGED <<repo, pc, visitorVars, ci, all_chunks, repository_status, documentation,
                   runs, prev_chunks, otherVars>>

\* parse_python_file with a visitor whose accumulators are shared by all
\* visitors: the lists still hold what the file before left in them
ParseBegin_SharedAccumulators ==
    /\ pc = "walk"
    /\ fi < Len(repo)
    /\ ~repo[fi + 1].syntax_error
    /\ source_lines' = SplitLines(SourceText(repo[fi + 1]))
    /\ imports' = <<>>
    /\ classes' = IF fi > 0 /\ "classes" \in DOMAIN files[fi] THEN files[fi].classes ELSE <<>>
    /\ functions' = IF fi > 0 /\ "functions" \in DOMAIN files[fi]
                    THEN files[fi].functions ELSE <<>>
    /\ variables' = <<>>
    /\ ni' = 1
    /\ pc' = "visit"
    /\ UNCHANGED <<repo, fi, files, ci, all_chunks, repository_status, documentation,
                   runs, prev_chunks, otherVars>>

\* parse_python_file, lines 33-38: the file parses and a fresh visitor starts
\* on the tree
ParseBegin ==
    /\ pc = "walk"
    /\ fi < Len(repo)
    /\ ~repo[fi + 1].syntax_error
    /\ source_lines' = SplitLines(SourceText(repo[fi + 1]))
    /\ imports' = <<>>
    /\ classes' = <<>>
    /\ functions' = <<>>
    /\ variables' = <<>>
    /\ ni' = 1
    /\ pc' = "visit"
    /\ UNCHANGED <<repo, fi, files, ci, all_chunks, repository_status, documentation,
                   runs, prev_chunks, otherVars>>

\* an exception leaves the traversal and the record returned keeps what the
\* visitor had gathered
ParseRaise_Partial(e) ==
    /\ files' = Append(files, [file_path |-> repo[fi + 1].file_path, error |-> e,
                                classes |-> classes, functions |-> functions])
    /\ fi' = fi + 1
    /\ pc' = "walk"
    /\ DropVisitor

\* an exception leaves the traversal and parse_python_file returns the error
\* record (lines 50-55)
ParseRaise(e) ==
    /\ files' = Append(files, ErrorRecord(repo[fi + 1].file_path, e))
    /\ fi' = fi + 1
    /\ pc' = "walk"
    /\ DropVisitor

\* visit_ClassDef
VisitClassDef ==
    /\ pc = "visit"
    /\ ni <= Len(repo[fi + 1].nodes)
    /\ repo[fi + 1].nodes[ni].kind = "ClassDef"
    /\ LET outcome == ClassInfo(source_lines, repo[fi + 1].nodes, ni) IN
       IF outcome.exc # NoValue
       THEN ParseRaise(outcome.exc)
       ELSE /\ classes' = Append(classes, outcome.info[1])
            /\ ni' = ni + 1
            /\ UNCHANGED <<pc, fi, files, source_lines, imports, functions, variables>>
    /\ UNCHANGED <<repo, ci, all_chunks, repository_status, documentation,
                   runs, prev_chunks, otherVars>>

\* visit_FunctionDef
VisitFunctionDef ==
    /\ pc = "visit"
    /\ ni <= Len(repo[fi + 1].nodes)
    /\ repo[fi + 1].nodes[ni].kind = "FunctionDef"
    /\ LET outcome == ProcessFunction(source_lines, repo[fi + 1].nodes, ni) IN
       IF outcome.exc # NoValue
       THEN ParseRaise(outcome.exc)
       ELSE /\ functions' = Append(functions, outcome.info[1])
            /\ ni' = ni + 1
            /\ UNCHANGED <<pc, fi, files, source_lines, imports, classes, variables>>
    /\ UNCHANGED <<repo, ci, all_chunks, repository_status, documentation,
                   runs, prev_chunks, otherVars>>

\* parse_python_file, lines 40-49: the traversal is over, the methods are
\* filtered out of the functions and the file structure is returned
ParseReturn ==
    /\ pc = "visit"
    /\ ni > Len(repo[fi + 1].nodes)
    /\ files' = Append(files, FileStructure(repo[fi + 1].file_path, imports, classes,
                                            FilterMethodsFromFunctions(classes, functions),
                                            variables))
    /\ fi' = fi + 1
    /\ pc' = "walk"
    /\ DropVisitor
    /\ UNCHANGED <<repo, ci, all_chunks, repository_status, documentation,
                   runs, prev_chunks, otherVars>>

\* analyze_repository returns; process_repository, lines 47-55
AnalyzeReturn ==
    /\ pc = "walk"
    /\ fi = Len(repo)
    /\ repository_status' = StatusEntry("processing", 4, "Extracting code chunks...")
    /\ all_chunks' = <<>>
    /\ ci' = 0
    /\ pc' = "extract"
    /\ UNCHANGED <<repo, fi, visitorVars, files, documentation, runs, prev_chunks, otherVars>>

\* process_repository, lines 56-58: one turn of the loop over the file structures
ExtractFile ==
    /\ pc = "extract"
    /\ ci < Len(files)
    /\ all_chunks' = all_chunks \o ExtractChunks(files[ci + 1])
    /\ ci' = ci + 1
    /\ UNCHANGED <<repo, pc, fi, visitorVars, files, repository_status, documentation,
                   runs, prev_chunks, otherVars>>

\* process_repository, lines 60-65
ExtractDone ==
    /\ pc = "extract"
    /\ ci = Len(files)
    /\ repository_status' = StatusEntry("processing", 6, "Generating embeddings...")
    /\ pc' = "embed"
    /\ UNCHANGED <<repo, fi, visitorVars, files, ci, all_chunks, documentation,
                   runs, prev_chunks, otherVars>>

\* process_repository, lines 67-75: process_chunks returns (at once when there
\* are no chunks)
EmbedReturn ==
    /\ pc = "embed"
    /\ repository_status' = StatusEntry("processing", 8, "Generating documentation...")
    /\ pc' = "document"
    /\ UNCHANGED <<repo, fi, visitorVars, files, ci, all_chunks, documentation,
                   runs, prev_chunks, otherVars>>

\* process_repository, lines 96-105: the except clause
ProcessFail(e) ==
    /\ repository_status' =
           StatusEntry("failed", 0, "Failed to generate documentation: " \o e)
    /\ pc' = "failed"

\* process_chunks raises what the vector store raised (embedding_service.py,
\* lines 105-111); it reaches the store only when there are chunks
EmbedRaise ==
    /\ pc = "embed"
    /\ all_chunks # <<>>
    /\ ProcessFail("vector store error")
    /\ UNCHANGED <<repo, fi, visitorVars, files, ci, all_chunks, documentation,
                   runs, prev_chunks, otherVars>>

\* variant: the entry is set COMPLETED and the documentation is not yet written
DocumentWrite_StatusFirst ==
    /\ pc = "document"
    /\ repository_status' =
           StatusEntry("completed", 10, "Documentation generated successfully")
    /\ pc' = "done"
    /\ UNCHANGED <<repo, fi, visitorVars, files, ci, all_chunks, documentation,
                   runs, prev_chunks, otherVars>>

\* process_repository, lines 77-92: the documentation is generated and written
DocumentWrite ==
    /\ pc = "document"
    /\ documentation' = <<GenerateDocumentation(RepoId, files)>>
    /\ repository_status' =
           StatusEntry("completed", 10, "Documentation generated successfully")
    /\ pc' = "done"
    /\ UNCHANGED <<repo, fi, visitorVars, files, ci, all_chunks, runs, prev_chunks, otherVars>>

\* variant: the entry is set COMPLETED before the documentation is written, so
\* that the write fails on a job that is already COMPLETED
DocumentRaise_AfterCompleted ==
    /\ pc = "done"
    /\ repository_status.status = "completed"
    /\ ProcessFail("OSError")
    /\ UNCHANGED <<repo, fi, visitorVars, files, ci, all_chunks, documentation,
                   runs, prev_chunks, otherVars>>

\* process_repository, lines 81-85: os.makedirs or open raises OSError
DocumentRaise ==
    /\ pc = "document"
    /\ ProcessFail("OSError")
    /\ UNCHANGED <<repo, fi, visitorVars, files, ci, all_chunks, documentation,
                   runs, prev_chunks, otherVars>>

Next ==
    \/ ProcessStart
    \/ ParseSyntaxError
    \/ ParseBegin
    \/ VisitClassDef
    \/ VisitFunctionDef
    \/ ParseReturn
    \/ AnalyzeReturn
    \/ ExtractFile
    \/ ExtractDone
    \/ EmbedReturn
    \/ EmbedRaise
    \/ DocumentWrite
    \/ DocumentRaise

Spec == Init /\ [][Next]_vars

(***************************************************************************)
(* process_repository called again on the same repository                  *)
(***************************************************************************)
InitTwice ==
    /\ repo \in {WithPaths(fs) : fs \in FileSeqs(1, MaxTwiceNodes)}
    /\ RepoStart

\* a further call of process_repository(repo_id, repo_path): its locals are
\* fresh, the status entry and the documentation file are as the last call
\* left them
ProcessAgain ==
    /\ pc \in {"done", "failed"}
    /\ runs < MaxRuns
    /\ runs' = runs + 1
    /\ prev_chunks' = all_chunks
    /\ pc' = "call"
    /\ fi' = 0
    /\ files' = <<>>
    /\ ci' = 0
    /\ all_chunks' = <<>>
    /\ UNCHANGED <<repo, visitorVars, repository_status, documentation, otherVars>>

NextTwice == Next \/ ProcessAgain

SpecTwice == InitTwice /\ [][NextTwice]_vars

(***************************************************************************)
(* parse_python_file on one file with imports, assignments, coroutine      *)
(* definitions and conditionals next to its classes and functions          *)
(***************************************************************************)
MaxDecls == 3
MaxStatements == 2

Alias(name, asname) == [name |-> name, asname |-> asname]

\* import os / import os as o / import os, sys as s
ImportStatements ==
    {[kind |-> "Import", parent |-> 0, names |-> names] :
        names \in {<<Alias("os", NoValue)>>,
                   <<Alias("os", "o")>>,
                   <<Alias("os", NoValue), Alias("sys", "s")>>}}

\* from m import x / from . import x / from .m import x /
\* from m import x as y, z
ImportFromStatements ==
    {[kind |-> "ImportFrom", parent |-> 0, module |-> "m", level |-> 0,
      names |-> <<Alias("x", NoValue)>>],
     [kind |-> "ImportFrom", parent |-> 0, module |-> NoValue, level |-> 1,
      names |-> <<Alias("x", NoValue)>>],
     [kind |-> "ImportFrom", parent |-> 0, module |-> "m", level |-> 1,
      names |-> <<Alias("x", NoValue)>>],
     [kind |-> "ImportFrom", parent |-> 0, module |-> "m", level |-> 0,
      names |-> <<Alias("x", "y"), Alias("z", NoValue)>>]}

Target(kind, text) == [kind |-> kind, text |-> text]

\* x = 1 / x = y = 1 / a, b = 1 / o.a = 1 / o[0] = 1
AssignStatements ==
    {[kind |-> "Assign", parent |-> 0, targets |-> targets, value |-> "1"] :
        targets \in {<<Target("Name", "x")>>,
                     <<Target("Name", "x"), Target("Name", "y")>>,
                     <<Target("Tuple", "a, b")>>,
                     <<Target("Attribute", "o.a")>>,
                     <<Target("Subscript", "o[0]")>>}}

\* class, def and async def of every name, and if
DeclarationStatements ==
    {[kind |-> k, name |-> nm, parent |-> 0, args |-> EmptyArguments] :
        k \in {"ClassDef", "FunctionDef", "AsyncFunctionDef"}, nm \in Names}
    \cup {[kind |-> "If", parent |-> 0]}

\* the files of n statements drawn from statements, each statement in the body
\* of a compound statement that is still open or at module level
RECURSIVE StatementTrees(_, _)
StatementTrees(n, statements) ==
    IF n = 0 THEN {<<>>}
    ELSE UNION {{Append(t, [st EXCEPT !.parent = p]) :
                    st \in statements,
                    p \in {0} \cup {e \in Enclosing(t, n - 1) : t[e].kind \in CompoundKinds}} :
                t \in StatementTrees(n - 1, statements)}

AnalyzedFiles ==
    {[syntax_error |-> FALSE, nodes |-> t] :
        t \in UNION {StatementTrees(n, DeclarationStatements) : n \in 0..MaxDecls}
              \cup UNION {StatementTrees(n, DeclarationStatements \cup ImportStatements
                                            \cup ImportFromStatements \cup AssignStatements) :
                          n \in 0..MaxStatements}}

\* analyze_repository has reached the only file of the repository
InitAnalyze ==
    /\ repo \in {WithPaths(<<file>>) : file \in AnalyzedFiles}
    /\ pc = "walk"
    /\ fi = 0
    /\ ni = 0
    /\ source_lines = <<>>
    /\ imports = <<>>
    /\ classes = <<>>
    /\ functions = <<>>
    /\ variables = <<>>
    /\ files = <<>>
    /\ ci = 0
    /\ all_chunks = <<>>
    /\ repository_status = StatusEntry("processing", 2, "Analyzing code structure...")
    /\ documentation = <<>>
    /\ runs = 1
    /\ prev_chunks = <<>>
    /\ SpanIdle
    /\ ParamsIdle
    /\ DocIdle
    /\ EndIdle
    /\ JobIdle

\* visit_Import
VisitImport ==
    /\ pc = "visit"
    /\ ni <= Len(repo[fi + 1].nodes)
    /\ repo[fi + 1].nodes[ni].kind = "Import"
    /\ LET node == repo[fi + 1].nodes[ni] IN
       imports' = imports \o [k \in 1..Len(node.names) |->
                                 [name |-> node.names[k].name,
                                  alias |-> node.names[k].asname,
                                  line |-> NodePosition(repo[fi + 1].nodes, ni).lineno]]
    /\ ni' = ni + 1
    /\ UNCHANGED <<repo, pc, fi, source_lines, classes, functions, variables, files, ci,
                   all_chunks, repository_status, documentation, runs, prev_chunks, otherVars>>

\* visit_ImportFrom that records the bare symbol whatever the module is
VisitImportFrom_NoModule ==
    /\ pc = "visit"
    /\ ni <= Len(repo[fi + 1].nodes)
    /\ repo[fi + 1].nodes[ni].kind = "ImportFrom"
    /\ LET node == repo[fi + 1].nodes[ni] IN
       imports' = imports \o [k \in 1..Len(node.names) |->
                                 [name |-> node.names[k].name,
                                  alias |-> node.names[k].asname,
                                  line |-> NodePosition(repo[fi + 1].nodes, ni).lineno]]
    /\ ni' = ni + 1
    /\ UNCHANGED <<repo, pc, fi, source_lines, classes, functions, variables, files, ci,
                   all_chunks, repository_status, documentation, runs, prev_chunks, otherVars>>

\* visit_ImportFrom
VisitImportFrom ==
    /\ pc = "visit"
    /\ ni <= Len(repo[fi + 1].nodes)
    /\ repo[fi + 1].nodes[ni].kind = "ImportFrom"
    /\ LET node == repo[fi + 1].nodes[ni]
           module == node.module
       IN  imports' = imports \o [k \in 1..Len(node.names) |->
                                     [name |-> IF module # NoValue
                                               THEN module \o "." \o node.names[k].name
                                               ELSE node.names[k].name,
                                      alias |-> node.names[k].asname,
                                      line |-> NodePosition(repo[fi + 1].nodes, ni).lineno]]
    /\ ni' = ni + 1
    /\ UNCHANGED <<repo, pc, fi, source_lines, classes, functions, variables, files, ci,
                   all_chunks, repository_status, documentation, runs, prev_chunks, otherVars>>

\* visit_Assign
VisitAssign ==
    /\ pc = "visit"
    /\ ni <= Len(repo[fi + 1].nodes)
    /\ repo[fi + 1].nodes[ni].kind = "Assign"
    /\ LET node == repo[fi + 1].nodes[ni]
           named == SelectSeq(node.targets, LAMBDA target : target.kind = "Name")
       IN  variables' = variables \o [k \in 1..Len(named) |->
                              [name |-> named[k].text,
                               line |-> NodePosition(repo[fi + 1].nodes, ni).lineno,
                               value |-> GetNodeSource(source_lines,
                                             ValuePosition(repo[fi + 1].nodes, ni))]]
    /\ ni' = ni + 1
    /\ UNCHANGED <<repo, pc, fi, source_lines, imports, classes, functions, files, ci,
                   all_chunks, repository_status, documentation, runs, prev_chunks, otherVars>>

\* NodeVisitor.visit of a node whose class has no visit_ method in the visitor
\* (async def, if): generic_visit goes on with its children
GenericVisit ==
    /\ pc = "visit"
    /\ ni <= Len(repo[fi + 1].nodes)
    /\ repo[fi + 1].nodes[ni].kind \in {"AsyncFunctionDef", "If"}
    /\ ni' = ni + 1
    /\ UNCHANGED <<repo, pc, fi, source_lines, imports, classes, functions, variables, files,
                   ci, all_chunks, repository_status, documentation, runs, prev_chunks,
                   otherVars>>

NextAnalyze ==
    \/ ParseBegin
    \/ VisitImport
    \/ VisitImportFrom
    \/ VisitClassDef
    \/ VisitFunctionDef
    \/ VisitAssign
    \/ GenericVisit
    \/ ParseReturn

SpecAnalyze == InitAnalyze /\ [][NextAnalyze]_vars

(***************************************************************************)
(* Properties of the analysis and of the chunk extraction                  *)
(***************************************************************************)
\* analyze_repository has returned
AnalysisDone == pc \in {"extract", "embed", "document", "done", "failed"}
\* the loop over the file structures has ended
ChunksDone == pc \in {"embed", "document", "done", "failed"}

IsErrorRecord(record) == "error" \in DOMAIN record

\* the file makes parse_python_file raise: a syntax error, or a function whose
\* positional-only parameters have defaults that its other parameters cannot take
Fails(file) ==
    \/ file.syntax_error
    \/ \E i \in 1..Len(file.nodes) :
          /\ file.nodes[i].kind = "FunctionDef"
          /\ Len(file.nodes[i].args.defaults) > 2 * Len(file.nodes[i].args.args)

\* C1: after parse_python_file no record of `functions` has the name and the
\* line range of a method of a class of the same file
C1_NoDuplicateOwnership ==
    \A i \in 1..Len(files) :
        ~IsErrorRecord(files[i]) =>
            \A f \in 1..Len(files[i].functions) :
                \A c \in 1..Len(files[i].classes) :
                    \A m \in 1..Len(files[i].classes[c].methods) :
                        ~ /\ files[i].functions[f].name = files[i].classes[c].methods[m].name
                          /\ files[i].functions[f].line_range
                                = files[i].classes[c].methods[m].line_range

\* a returned structure with a method in a class nested in a function, next to
\* a function that stays in `functions`
C1_Witness ==
    \E i \in 1..Len(files) :
        /\ ~IsErrorRecord(files[i])
        /\ files[i].functions # <<>>
        /\ \E c \in 1..Len(files[i].classes) :
              /\ files[i].classes[c].methods # <<>>
              /\ files[i].classes[c].line_range[1] > 1

\* C2: within one repository run all chunk ids are pairwise distinct
C2_ChunkIdsUnique ==
    ChunksDone =>
        \A i, j \in 1..Len(all_chunks) : i # j => all_chunks[i].id # all_chunks[j].id

\* what a chunk is about: its type, its name and its owning class
ChunkShape(chunk) ==
    [type |-> chunk.type, name |-> chunk.name,
     class_name |-> IF "class_name" \in DOMAIN chunk THEN chunk.class_name ELSE NoValue,
     content |-> chunk.content, line_range |-> chunk.line_range]

ShapeOfClass(class_info) ==
    <<[type |-> "class", name |-> class_info.name, class_name |-> NoValue,
       content |-> class_info.content, line_range |-> class_info.line_range]>>
    \o [m \in 1..Len(class_info.methods) |->
           [type |-> "method", name |-> class_info.methods[m].name,
            class_name |-> class_info.name,
            content |-> class_info.methods[m].content,
            line_range |-> class_info.methods[m].line_range]]

\* the chunks a file structure calls for: each class followed by its methods,
\* then the functions
ExpectedShapes(record) ==
    IF IsErrorRecord(record) THEN <<>>
    ELSE Flatten([c \in 1..Len(record.classes) |-> ShapeOfClass(record.classes[c])])
         \o [f \in 1..Len(record.functions) |->
                [type |-> "function", name |-> record.functions[f].name,
                 class_name |-> NoValue,
                 content |-> record.functions[f].content,
                 line_range |-> record.functions[f].line_range]]

RECURSIVE SumOf(_)
SumOf(numbers) == IF numbers = <<>> THEN 0 ELSE numbers[1] + SumOf(Tail(numbers))

RecordCount(record) ==
    IF IsErrorRecord(record) THEN 0
    ELSE Len(record.classes) + Len(record.functions)
         + SumOf([c \in 1..Len(record.classes) |-> Len(record.classes[c].methods)])

\* C5: the chunks of the file structures flattened so far are, per structure,
\* each class followed by its methods and then the functions, one chunk per
\* record, and class_name is present exactly on the method chunks
C5_ChunkSequence ==
    /\ [k \in 1..Len(all_chunks) |-> ChunkShape(all_chunks[k])]
          = Flatten([i \in 1..ci |-> ExpectedShapes(files[i])])
    /\ Len(all_chunks) = SumOf([i \in 1..ci |-> RecordCount(files[i])])
    /\ \A k \in 1..Len(all_chunks) :
          /\ ("class_name" \in DOMAIN all_chunks[k]) <=> (all_chunks[k].type = "method")
          /\ all_chunks[k].file_path \in {files[i].file_path : i \in 1..ci}

\* every structure flattened, among them a class with a method and a function
\* of the same name
C5_Witness ==
    /\ ChunksDone
    /\ \E a, b \in 1..Len(all_chunks) :
          /\ all_chunks[a].type = "method"
          /\ all_chunks[b].type = "function"
          /\ all_chunks[a].name = all_chunks[b].name

\* the record of declaration i as the text of the file gives it
DeclaredRecord(file, i) ==
    LET last == LastNested(file.nodes, i)
        header == HeaderLine(file.nodes, i)
        indent == 4 * Depth(file.nodes, i)
    IN  [name |-> file.nodes[i].name,
         line_range |-> <<i, last>>,
         content |-> JoinWith(<<SubSeq(header, indent + 1, Len(header))>>
                              \o [j \in 1..(last - i) |-> HeaderLine(file.nodes, i + j)],
                              NewLine),
         params |-> <<>>]

IndicesOf(file, test(_)) ==
    SelectSeq([j \in 1..Len(file.nodes) |-> j], test)

\* the structure of a file as its declarations give it: every class with the
\* functions defined directly in its body, and the functions defined elsewhere
DeclaredStructure(file) ==
    LET class_ids == IndicesOf(file, LAMBDA j : file.nodes[j].kind = "ClassDef")
        method_ids(c) ==
            IndicesOf(file, LAMBDA j : /\ file.nodes[j].kind = "FunctionDef"
                                       /\ file.nodes[j].parent = c)
        function_ids ==
            IndicesOf(file, LAMBDA j :
                /\ file.nodes[j].kind = "FunctionDef"
                /\ \/ file.nodes[j].parent = 0
                   \/ file.nodes[file.nodes[j].parent].kind = "FunctionDef")
    IN  [file_path |-> file.file_path,
         imports |-> <<>>,
         classes |-> [k \in 1..Len(class_ids) |->
                        [name |-> file.nodes[class_ids[k]].name,
                         line_range |-> DeclaredRecord(file, class_ids[k]).line_range,
                         content |-> DeclaredRecord(file, class_ids[k]).content,
                         methods |-> [m \in 1..Len(method_ids(class_ids[k])) |->
                                        DeclaredRecord(file, method_ids(class_ids[k])[m])]]],
         functions |-> [k \in 1..Len(function_ids) |->
                          DeclaredRecord(file, function_ids[k])],
         variables |-> <<>>]

ValidFiles == SelectSeq(repo, LAMBDA file : ~Fails(file))

\* C6: analyze_repository never aborts; it returns one entry per file, an
\* error record for each failing file and the complete structure of each
\* other file; the failing files contribute no chunks, and the structures and
\* chunks of the valid files are those of the repository without the failing
\* files
C6_ParseFailureIsolation ==
    /\ Len(files) = fi
    /\ pc = "failed" => fi = Len(repo)
    /\ AnalysisDone =>
          /\ Len(files) = Len(repo)
          /\ \A i \in 1..Len(repo) :
                IF Fails(repo[i])
                THEN /\ IsErrorRecord(files[i])
                     /\ files[i].file_path = repo[i].file_path
                ELSE files[i] = DeclaredStructure(repo[i])
          /\ SelectSeq(files, LAMBDA record : ~IsErrorRecord(record))
                = [k \in 1..Len(ValidFiles) |-> DeclaredStructure(ValidFiles[k])]
    /\ ChunksDone =>
          /\ \A k \in 1..Len(all_chunks) :
                \A i \in 1..Len(repo) :
                    Fails(repo[i]) => all_chunks[k].file_path # repo[i].file_path
          /\ [k \in 1..Len(all_chunks) |-> ChunkShape(all_chunks[k])]
                = Flatten([k \in 1..Len(ValidFiles) |->
                              ExpectedShapes(DeclaredStructure(ValidFiles[k]))])

\* a run over a failing file followed by a valid file that yields chunks
C6_Witness ==
    /\ pc = "done"
    /\ Len(repo) = 2
    /\ Fails(repo[1])
    /\ ~Fails(repo[2])
    /\ all_chunks # <<>>

\* a run over a valid file followed by a failing file
C6_WitnessFailingLast ==
    /\ pc = "done"
    /\ Len(repo) = 2
    /\ ~Fails(repo[1])
    /\ Fails(repo[2])
    /\ all_chunks # <<>>

\* C7: parse_python_file never raises and returns either a record with
\* file_path, imports, classes, functions and variables or a record with only
\* file_path and error; a file that fails gives the error record, whatever was
\* gathered before the failure
C7_NoPartialStructure ==
    /\ Len(files) = fi
    /\ pc \in {"walk", "visit"} => repository_status.status = "processing"
    /\ \A i \in 1..Len(files) :
          /\ \/ DOMAIN files[i] = {"file_path", "imports", "classes", "functions", "variables"}
             \/ DOMAIN files[i] = {"file_path", "error"}
          /\ files[i].file_path = repo[i].file_path
          /\ Fails(repo[i]) <=> IsErrorRecord(files[i])

\* the error record of a file whose traversal failed after it had gathered a
\* declaration
C7_Witness ==
    \E i \in 1..Len(files) :
        /\ IsErrorRecord(files[i])
        /\ ~repo[i].syntax_error
        /\ Len(repo[i].nodes) >= 2
        /\ repo[i].nodes[1].args = EmptyArguments
        /\ repo[i].nodes[1].kind = "FunctionDef"

\* C8: a second run on the same input yields the same chunks in the same
\* order, and every id is file_path:type:qualified_name and nothing else
C8_DeterministicIds ==
    /\ (runs >= 2 /\ ChunksDone) => all_chunks = prev_chunks
    /\ \A k \in 1..Len(all_chunks) :
          all_chunks[k].id =
              all_chunks[k].file_path \o ":" \o all_chunks[k].type \o ":"
              \o (IF all_chunks[k].type = "method"
                  THEN all_chunks[k].class_name \o "." \o all_chunks[k].name
                  ELSE all_chunks[k].name)

\* the second run has flattened a class, its method and a function
C8_Witness ==
    /\ runs >= 2
    /\ ChunksDone
    /\ Len(all_chunks) >= 2
    /\ \E k \in 1..Len(all_chunks) : all_chunks[k].type = "method"

FullSuccessEntry == StatusEntry("completed", 10, "Documentation generated successfully")

ParseFailures == Cardinality({i \in 1..Len(files) : IsErrorRecord(files[i])})

\* the modules of the written documentation that are marked as failed
ReportedFailures ==
    IF documentation = <<>> THEN 0
    ELSE Cardinality({i \in 1..Len(documentation[1].modules) :
                         "error" \in DOMAIN documentation[1].modules[i]})

\* C9: a run in which some files fail to parse and some parse ends with a
\* status that tells partial success, the failures being reported next to the
\* structures, and parse failures never make the run end as failed
C9_PartialSuccessReported ==
    /\ (pc = "done" /\ ParseFailures > 0 /\ ParseFailures < Len(files)) =>
          /\ repository_status.status # "failed"
          /\ \/ repository_status # FullSuccessEntry
             \/ ReportedFailures = ParseFailures
    /\ (pc = "failed" /\ ParseFailures < Len(files)) =>
          repository_status.message \in
              {"Failed to generate documentation: vector store error",
               "Failed to generate documentation: OSError"}

\* C11: a file that parses is never answered with an error record: whatever
\* its declarations and parameter lists are, parse_python_file returns its
\* file structure
C11_ValidSourceAnalysed ==
    \A i \in 1..Len(files) :
        ~repo[i].syntax_error => ~IsErrorRecord(files[i])

(***************************************************************************)
(* Properties of the analysis of one file (SpecAnalyze)                    *)
(***************************************************************************)
\* a function definition: def or async def
IsFunctionDefinition(node) == node.kind \in {"FunctionDef", "AsyncFunctionDef"}

\* statement i stands directly in the body of a class
IsDirectChildOfClass(nodes, i) ==
    /\ nodes[i].parent # 0
    /\ nodes[nodes[i].parent].kind = "ClassDef"

\* the positions of records that hold the record of definition i
RecordsOf(records, nodes, i) ==
    {k \in 1..Len(records) :
        /\ records[k].name = nodes[i].name
        /\ records[k].line_range[1] = i}

\* the record of class c: the classes are recorded in document order
ClassRecordOf(structure, nodes, c) ==
    structure.classes[Cardinality({d \in 1..c : nodes[d].kind = "ClassDef"})]

\* the number of method records, over all classes, that hold definition i
MethodRecordCount(structure, nodes, i) ==
    SumOf([k \in 1..Len(structure.classes) |->
              Cardinality(RecordsOf(structure.classes[k].methods, nodes, i))])

\* definition i of the kinds in defs is recorded once: in the methods of its
\* class and nowhere else when it stands directly in a class body, in
\* functions and in no class otherwise
RecordedOnce(structure, nodes, i) ==
    IF IsDirectChildOfClass(nodes, i)
    THEN /\ Cardinality(RecordsOf(ClassRecordOf(structure, nodes, nodes[i].parent).methods,
                                  nodes, i)) = 1
         /\ MethodRecordCount(structure, nodes, i) = 1
         /\ RecordsOf(structure.functions, nodes, i) = {}
    ELSE /\ Cardinality(RecordsOf(structure.functions, nodes, i)) = 1
         /\ MethodRecordCount(structure, nodes, i) = 0

\* C12: in the structure parse_python_file returns, every function
\* definition of the file is recorded exactly once: in the methods of its
\* class and not in functions when it is a direct child of a class body, once
\* in functions otherwise
C12_EveryFunctionRecordedOnce ==
    \A j \in 1..Len(files) :
        ~IsErrorRecord(files[j]) =>
            \A i \in 1..Len(repo[j].nodes) :
                IsFunctionDefinition(repo[j].nodes[i]) =>
                    RecordedOnce(files[j], repo[j].nodes, i)

\* the same for the definitions written with plain def, which are the ones
\* visit_FunctionDef and visit_ClassDef look at
PlainDefsRecordedOnce ==
    \A j \in 1..Len(files) :
        ~IsErrorRecord(files[j]) =>
            /\ \A i \in 1..Len(repo[j].nodes) :
                  repo[j].nodes[i].kind = "FunctionDef" =>
                      RecordedOnce(files[j], repo[j].nodes, i)
            /\ Len(files[j].functions)
                  + SumOf([k \in 1..Len(files[j].classes) |->
                              Len(files[j].classes[k].methods)])
                  = Cardinality({i \in 1..Len(repo[j].nodes) :
                                    repo[j].nodes[i].kind = "FunctionDef"})

\* the statements of the kinds in kinds that stand directly in the body of
\* statement c, in body order, each as <<name, first line>>
DirectChildren(nodes, c, kinds) ==
    LET items == SelectSeq(Children(nodes, c), LAMBDA i : nodes[i].kind \in kinds)
    IN  [k \in 1..Len(items) |-> <<nodes[items[k]].name, items[k]>>]

\* the records of a list, each as <<name, first line>>
Recorded(records) ==
    [k \in 1..Len(records) |-> <<records[k].name, records[k].line_range[1]>>]

\* every class of the file, nested or not, has its own entry of classes, in
\* document order, and the methods of the entry are the definitions of the
\* kinds in kinds that stand directly in its body, in body order
MethodsAreDirectChildren(structure, nodes, kinds) ==
    LET class_ids == SelectSeq([i \in 1..Len(nodes) |-> i],
                               LAMBDA i : nodes[i].kind = "ClassDef")
    IN  /\ Recorded(structure.classes)
              = [k \in 1..Len(class_ids) |-> <<nodes[class_ids[k]].name, class_ids[k]>>]
        /\ \A k \in 1..Len(class_ids) :
              Recorded(structure.classes[k].methods)
                  = DirectChildren(nodes, class_ids[k], kinds)

\* C13: the methods of a class record are exactly the function definitions
\* that are direct children of the class body, in body order; a definition
\* nested deeper is not among them, and a nested class has its own entry of
\* classes with its own methods
C13_MethodsAreDirectChildren ==
    \A j \in 1..Len(files) :
        ~IsErrorRecord(files[j]) =>
            MethodsAreDirectChildren(files[j], repo[j].nodes,
                                     {"FunctionDef", "AsyncFunctionDef"})

\* the same for the definitions written with plain def
PlainMethodsAreDirectChildren ==
    \A j \in 1..Len(files) :
        ~IsErrorRecord(files[j]) =>
            MethodsAreDirectChildren(files[j], repo[j].nodes, {"FunctionDef"})

\* the records of the plain-name targets of assignment i, as the text of the
\* file gives them
BindingRecords(nodes, i) ==
    LET named == SelectSeq(nodes[i].targets, LAMBDA target : target.kind = "Name")
    IN  [k \in 1..Len(named) |-> [name |-> named[k].text, line |-> i,
                                  value |-> nodes[i].value]]

\* the binding records of the assignments among the statements ids
BindingsOf(nodes, ids) ==
    Flatten([k \in 1..Len(ids) |-> BindingRecords(nodes, ids[k])])

\* statement i is at the top level of the file: no class and no function
\* encloses it
AtTopLevel(nodes, i) ==
    \A e \in Enclosing(nodes, i) \ {i} : nodes[e].kind = "If"

\* C14: variables holds one record per `name = expression` binding at the top
\* level of the file, in document order, with its line and the text of its
\* value, and nothing else
C14_TopLevelVariables ==
    \A j \in 1..Len(files) :
        ~IsErrorRecord(files[j]) =>
            files[j].variables
                = BindingsOf(repo[j].nodes,
                      SelectSeq([i \in 1..Len(repo[j].nodes) |-> i],
                                LAMBDA i : /\ repo[j].nodes[i].kind = "Assign"
                                           /\ AtTopLevel(repo[j].nodes, i)))

\* what variables does hold: the bindings of every assignment of the file,
\* whatever encloses it
EveryAssignmentRecorded ==
    \A j \in 1..Len(files) :
        ~IsErrorRecord(files[j]) =>
            files[j].variables
                = BindingsOf(repo[j].nodes,
                      SelectSeq([i \in 1..Len(repo[j].nodes) |-> i],
                                LAMBDA i : repo[j].nodes[i].kind = "Assign"))

\* the import records statement i stands for
ImportRecords(nodes, i) ==
    LET node == nodes[i]
        prefix == IF node.kind = "ImportFrom" /\ node.module # NoValue
                  THEN node.module \o "." ELSE ""
    IN  [k \in 1..Len(node.names) |->
            [name |-> prefix \o node.names[k].name,
             alias |-> node.names[k].asname,
             line |-> i]]

\* C15: imports holds one record per symbol of every import statement, in
\* statement order, with the alias of the symbol when it has one and the line
\* of the statement; the name is M.X for `from M import X` and the bare X
\* when the statement names no module
C15_ImportRecords ==
    \A j \in 1..Len(files) :
        ~IsErrorRecord(files[j]) =>
            LET nodes == repo[j].nodes
                ids == SelectSeq([i \in 1..Len(nodes) |-> i],
                                 LAMBDA i : nodes[i].kind \in {"Import", "ImportFrom"})
            IN  files[j].imports = Flatten([k \in 1..Len(ids) |-> ImportRecords(nodes, ids[k])])

\* the structure of a file with `from . import x` and
\* `from m import x as y, z`
C15_Witness ==
    /\ Len(files) = 1
    /\ ~IsErrorRecord(files[1])
    /\ \E i \in 1..Len(repo[1].nodes) :
          /\ repo[1].nodes[i].kind = "ImportFrom"
          /\ repo[1].nodes[i].module = NoValue
    /\ Len(files[1].imports) = 3
    /\ \E k \in 1..Len(files[1].imports) :
          /\ files[1].imports[k].name = "m.x"
          /\ files[1].imports[k].alias = "y"
    /\ \E k \in 1..Len(files[1].imports) :
          /\ files[1].imports[k].name = "x"
          /\ files[1].imports[k].alias = NoValue

(***************************************************************************)
(* PythonASTVisitor._get_end_line on the tree under a definition           *)
(*                                                                         *)
(* The tree is the sequence of its nodes in document order, node 1 being   *)
(* the class or function definition the visitor calls _get_end_line on.    *)
(* Statements and expressions carry lineno; nodes such as arguments and    *)
(* comprehension carry no position.  A tree built by Python 3.8 or later   *)
(* carries end_lineno on every node that has lineno; a tree built by an    *)
(* earlier Python carries it on none.                                      *)
(***************************************************************************)
MaxTreeNodes == 4
MaxLine == 3

MaxOf(numbers) == CHOOSE n \in numbers : \A m \in numbers : m <= n

\* the line numbers the nodes of tree carry
LinesOf(tree) == {tree[i].lineno[1] : i \in {j \in 1..Len(tree) : tree[j].lineno # <<>>}}

\* the trees of n nodes without end_lineno: every node after the first is
\* under the first, and line numbers do not decrease in document order
RECURSIVE TreesWithLines(_)
TreesWithLines(n) ==
    IF n = 1
    THEN {<<[parent |-> 0, lineno |-> <<l>>, end_lineno |-> <<>>]>> : l \in 1..MaxLine}
    ELSE UNION {{Append(t, [parent |-> p, lineno |-> ln, end_lineno |-> <<>>]) :
                    p \in Enclosing(t, n - 1),
                    ln \in {<<>>} \cup {<<l>> : l \in MaxOf(LinesOf(t))..MaxLine}} :
                t \in TreesWithLines(n - 1)}

\* node i and the nodes below it
Subtree(tree, i) == {d \in 1..Len(tree) : i \in Enclosing(tree, d)}

\* the last line of the source of node i
LastLine(tree, i) == MaxOf(LinesOf([k \in 1..Len(tree) |->
                                       IF k \in Subtree(tree, i) THEN tree[k]
                                       ELSE [tree[k] EXCEPT !.lineno = <<>>]]))

\* the tree as Python 3.8 or later builds it
WithEndLines(tree) ==
    [i \in 1..Len(tree) |->
        IF tree[i].lineno = <<>> THEN tree[i]
        ELSE [tree[i] EXCEPT !.end_lineno = <<LastLine(tree, i)>>]]

\* the body of a definition is never empty and comes after its parameters
\* and base classes: the last node directly under node 1 is a statement
EndsWithStatement(tree) ==
    /\ Len(tree) >= 2
    /\ LET last == MaxOf({c \in 1..Len(tree) : tree[c].parent = 1})
       IN  tree[last].lineno # <<>>

ParsedTrees ==
    UNION {{t, WithEndLines(t)} :
              t \in {u \in UNION {TreesWithLines(n) : n \in 2..MaxTreeNodes} :
                        EndsWithStatement(u)}}

\* _get_end_line(node), for a node that has lineno
RECURSIVE GetEndLineOfNode(_, _)
GetEndLineOfNode(tree, i) ==
    IF tree[i].end_lineno # <<>>
    THEN tree[i].end_lineno[1]
    ELSE MaxOf({tree[i].lineno[1]}
               \cup {GetEndLineOfNode(tree, child) :
                        child \in {c \in 1..Len(tree) : /\ tree[c].parent = i
                                                        /\ tree[c].lineno # <<>>}})

EndLineInit ==
    /\ el_tree \in ParsedTrees
    /\ el_end = <<>>
    /\ el_pc = "ready"
    /\ SpanIdle
    /\ ParamsIdle
    /\ DocIdle
    /\ JobIdle
    /\ RepoIdle

\* visit_ClassDef, line 209, and _process_function, line 261: the end of the
\* line range of the definition
EndLineCall ==
    /\ el_pc = "ready"
    /\ el_end' = <<GetEndLineOfNode(el_tree, 1)>>
    /\ el_pc' = "done"
    /\ UNCHANGED <<el_tree, spanVars, paramVars, docVars, jobVars, repoVars>>

EndLineNext == EndLineCall

SpecEndLine == EndLineInit /\ [][EndLineNext]_vars

\* the nodes below the definition that have a line number
Descendants == {d \in Subtree(el_tree, 1) \ {1} : el_tree[d].lineno # <<>>}

\* C16: _get_end_line returns the explicit end line of the node when the tree
\* has one, and otherwise the greatest end line computed for the nodes below
\* it (its own line when there are none); either way the result is not less
\* than the line of the node nor than the end line computed for any node
\* below it
C16_EndLineCoversDescendants ==
    el_pc = "done" =>
        /\ el_tree[1].end_lineno # <<>> => el_end[1] = el_tree[1].end_lineno[1]
        /\ el_tree[1].end_lineno = <<>> =>
              el_end[1] = MaxOf({el_tree[1].lineno[1]}
                                \cup {GetEndLineOfNode(el_tree, d) : d \in Descendants})
        /\ el_end[1] >= el_tree[1].lineno[1]
        /\ \A d \in Descendants : el_end[1] >= GetEndLineOfNode(el_tree, d)

\* what holds of every tree: the line range is ordered, and the end line
\* covers the nodes reached from the definition through nodes that all have
\* a line number
EndLineCoversReachedNodes ==
    el_pc = "done" =>
        /\ el_end[1] >= el_tree[1].lineno[1]
        /\ \A d \in Descendants :
              (\A e \in Enclosing(el_tree, d) : el_tree[e].lineno # <<>>)
                  => el_end[1] >= GetEndLineOfNode(el_tree, d)

(***************************************************************************)
(* Independence of the analyses of the files of a repository               *)
(***************************************************************************)
\* the traversal of a file of classes and functions from statement i on, by a
\* visitor that has gathered classes_ and functions_
RECURSIVE Traverse(_, _, _, _)
Traverse(file, i, classes_, functions_) ==
    IF i > Len(file.nodes)
    THEN FileStructure(file.file_path, <<>>, classes_,
                       FilterMethodsFromFunctions(classes_, functions_), <<>>)
    ELSE LET lines_ == SplitLines(SourceText(file))
             outcome == IF file.nodes[i].kind = "ClassDef"
                        THEN ClassInfo(lines_, file.nodes, i)
                        ELSE ProcessFunction(lines_, file.nodes, i)
         IN  IF outcome.exc # NoValue
             THEN ErrorRecord(file.file_path, outcome.exc)
             ELSE IF file.nodes[i].kind = "ClassDef"
             THEN Traverse(file, i + 1, Append(classes_, outcome.info[1]), functions_)
             ELSE Traverse(file, i + 1, classes_, Append(functions_, outcome.info[1]))

\* parse_python_file(file_path) called on its own, with a visitor of its own
AnalyzedAlone(file) ==
    IF file.syntax_error
    THEN ErrorRecord(file.file_path, "invalid syntax")
    ELSE Traverse(file, 1, <<>>, <<>>)

\* C17: the analyses of the files share nothing: every entry of the result
\* is what parse_python_file returns for that file on its own, whatever was
\* analysed before it, and analysing a further file leaves the entries
\* returned so far as they are
C17_NoSharedState ==
    [][/\ Len(files') >= Len(files)
       /\ \A j \in 1..Len(files) : files'[j] = files[j]
       /\ \A j \in 1..Len(files') : files'[j] = AnalyzedAlone(repo[j])]_vars

\* a file with a function and no class has been analysed after a file that
\* left a class in its visitor
C17_Witness ==
    /\ Len(files) = 2
    /\ ~IsErrorRecord(files[1])
    /\ ~IsErrorRecord(files[2])
    /\ files[1].classes # <<>>
    /\ files[2].classes = <<>>
    /\ files[2].functions # <<>>

(***************************************************************************)
(* A job: the request (clone_github_repository or                          *)
(* save_uploaded_repository), its background task and the call of          *)
(* process_repository the task ends with                                   *)
(* (backend/app/services/repository_service.py).                           *)
(*                                                                         *)
(* Every assignment to repository_status[repo_id] is a step of its own.    *)
(* repo is what repo_path holds once the task has filled it: the clone of  *)
(* the remote repository, or nothing for an upload, since the task creates *)
(* the directory and never extracts the zip file into it.                  *)
(***************************************************************************)
MaxJobNodes == 1

JobRepositories == {WithPaths(fs) : fs \in FileSeqs(1, MaxJobNodes)}

InitJob ==
    /\ source \in {"github", "file_upload"}
    /\ task = "request"
    /\ repo_dir = FALSE
    /\ zip_file = FALSE
    /\ response = <<>>
    /\ repo \in IF source = "github" THEN JobRepositories ELSE {<<>>}
    /\ pc = "off"
    /\ fi = 0
    /\ ni = 0
    /\ source_lines = <<>>
    /\ imports = <<>>
    /\ classes = <<>>
    /\ functions = <<>>
    /\ variables = <<>>
    /\ files = <<>>
    /\ ci = 0
    /\ all_chunks = <<>>
    /\ repository_status = <<>>
    /\ documentation = <<>>
    /\ runs = 1
    /\ prev_chunks = <<>>
    /\ SpanIdle
    /\ ParamsIdle
    /\ DocIdle
    /\ EndIdle

calcVars == <<spanVars, paramVars, docVars, endVars>>
analysisVars == <<repo, fi, visitorVars, files, ci, all_chunks, runs, prev_chunks>>

\* clone_github_repository, lines 24-50: the entry is created PENDING and the
\* task is handed to the event loop
CloneGithubRepository ==
    /\ task = "request"
    /\ source = "github"
    /\ repository_status' = StatusEntry("pending", 0, "Repository cloning initiated")
    /\ task' = "created"
    /\ UNCHANGED <<response, source, repo_dir, zip_file, pc, documentation, analysisVars, calcVars>>

\* save_uploaded_repository, lines 71-96
SaveUploadedRepository ==
    /\ task = "request"
    /\ source = "file_upload"
    /\ repository_status' = StatusEntry("pending", 0, "Repository upload initiated")
    /\ task' = "created"
    /\ UNCHANGED <<response, source, repo_dir, zip_file, pc, documentation, analysisVars, calcVars>>

\* _clone_repository_task, lines 149-154
CloneTaskStart ==
    /\ task = "created"
    /\ source = "github"
    /\ repository_status' = StatusEntry("processing", 1, "Cloning repository...")
    /\ task' = "clone"
    /\ UNCHANGED <<response, source, repo_dir, zip_file, pc, documentation, analysisVars, calcVars>>

\* _clone_repository_task, lines 156-171: git clone returns, the entry is
\* updated and process_repository is called
CloneReturn ==
    /\ task = "clone"
    /\ repo_dir' = TRUE
    /\ repository_status' = ClonedEntry
    /\ task' = "process"
    /\ pc' = "call"
    /\ UNCHANGED <<response, source, zip_file, documentation, analysisVars, calcVars>>

\* _clone_repository_task, lines 173-182: the except clause and its clean-up
CloneExcept(e) ==
    /\ repository_status' = StatusEntry("failed", 0, "Failed to clone repository: " \o e)
    /\ repo_dir' = FALSE
    /\ documentation' = <<>>
    /\ task' = "ended"
    /\ UNCHANGED <<response, source, zip_file, pc, analysisVars, calcVars>>

\* git clone raises, whatever it had written under repo_path
CloneRaise ==
    /\ task = "clone"
    /\ CloneExcept("GitCommandError")

\* _process_uploaded_file_task, lines 189-194
UploadTaskStart ==
    /\ task = "created"
    /\ source = "file_upload"
    /\ repository_status' = StatusEntry("processing", 1, "Processing uploaded file...")
    /\ task' = "open"
    /\ UNCHANGED <<response, source, repo_dir, zip_file, pc, documentation, analysisVars, calcVars>>

\* _process_uploaded_file_task, lines 197-198: the zip file is opened for
\* writing and the task waits for file.read()
UploadOpen ==
    /\ task = "open"
    /\ zip_file' = TRUE
    /\ task' = "read"
    /\ UNCHANGED <<response, source, repo_dir, pc, repository_status, documentation, analysisVars,
                   calcVars>>

\* _process_uploaded_file_task, lines 227-238: the except clause and its
\* clean-up
UploadExcept(e) ==
    /\ repository_status' =
           StatusEntry("failed", 0, "Failed to process uploaded file: " \o e)
    /\ zip_file' = FALSE
    /\ repo_dir' = FALSE
    /\ documentation' = <<>>
    /\ task' = "ended"
    /\ UNCHANGED <<response, source, pc, analysisVars, calcVars>>

\* open(zip_path, "wb") raises
UploadOpenRaise ==
    /\ task = "open"
    /\ UploadExcept("OSError")

\* _process_uploaded_file_task, lines 198-211: the content is read and
\* written, the directory is made and the entry is updated; the task then
\* waits in asyncio.sleep
UploadRead ==
    /\ task = "read"
    /\ repo_dir' = TRUE
    /\ repository_status' = StatusEntry("processing", 5, "Extracting repository...")
    /\ task' = "sleep"
    /\ UNCHANGED <<response, source, zip_file, pc, documentation, analysisVars, calcVars>>

\* variant: the exception leaves the task without passing an except clause
UploadReadRaise_Uncaught ==
    /\ task = "read"
    /\ task' = "ended"
    /\ UNCHANGED <<response, source, repo_dir, zip_file, pc, repository_status, documentation,
                   analysisVars, calcVars>>

\* file.read(), buffer.write or os.makedirs raises; the request that owned the
\* uploaded file may be over by now
UploadReadRaise ==
    /\ task = "read"
    /\ UploadExcept("I/O operation on closed file")

\* _process_uploaded_file_task, lines 214-225: the sleep is over, the entry is
\* updated and process_repository is called
UploadSleepReturn ==
    /\ task = "sleep"
    /\ repository_status' = ExtractedEntry
    /\ task' = "process"
    /\ pc' = "call"
    /\ UNCHANGED <<response, source, repo_dir, zip_file, documentation, analysisVars, calcVars>>

\* process_repository has returned and the task ends
TaskReturn ==
    /\ task = "process"
    /\ pc = "done"
    /\ task' = "ended"
    /\ UNCHANGED <<response, source, repo_dir, zip_file, pc, repository_status, documentation,
                   analysisVars, calcVars>>

\* str(e) of the exception process_repository raised again (line 105), read
\* back from the message its except clause formatted with it
RaisedByProcess ==
    LET prefix == "Failed to generate documentation: "
    IN  SubSeq(repository_status.message, Len(prefix) + 1, Len(repository_status.message))

\* variant: the except clause of the clone task writes the entry and leaves
\* the directory where it is
CloneTaskExcept_NoCleanup ==
    /\ task = "process"
    /\ source = "github"
    /\ pc = "failed"
    /\ repository_status' =
           StatusEntry("failed", 0, "Failed to clone repository: " \o RaisedByProcess)
    /\ task' = "ended"
    /\ UNCHANGED <<response, source, repo_dir, zip_file, pc, documentation, analysisVars,
                   calcVars>>

\* the exception of process_repository reaches the except clause of the
\* clone task
CloneTaskExcept ==
    /\ task = "process"
    /\ source = "github"
    /\ pc = "failed"
    /\ CloneExcept(RaisedByProcess)

\* the exception of process_repository reaches the except clause of the
\* upload task
UploadTaskExcept ==
    /\ task = "process"
    /\ source = "file_upload"
    /\ pc = "failed"
    /\ UploadExcept(RaisedByProcess)

NextJob ==
    \/ CloneGithubRepository
    \/ SaveUploadedRepository
    \/ CloneTaskStart
    \/ CloneReturn
    \/ CloneRaise
    \/ UploadTaskStart
    \/ UploadOpen
    \/ UploadOpenRaise
    \/ UploadRead
    \/ UploadReadRaise
    \/ UploadSleepReturn
    \/ Next
    \/ TaskReturn
    \/ CloneTaskExcept
    \/ UploadTaskExcept

SpecJob == InitJob /\ [][NextJob]_vars

\* the event loop runs every task that can run, and every call returns or
\* raises
SpecJobLive == InitJob /\ [][NextJob]_vars /\ WF_vars(NextJob)

(***************************************************************************)
(* Properties of a job (SpecJob, SpecJobLive)                              *)
(***************************************************************************)
StatusOf == IF repository_status = <<>> THEN "none" ELSE repository_status.status

Terminal == {"completed", "failed"}

\* C18: the status of a job is PENDING, then PROCESSING zero or more times,
\* then COMPLETED or FAILED: the entry is PENDING when the task is created and
\* has not yet run, and no step changes a COMPLETED or FAILED entry to another
\* status.
C18_StatusOrder ==
    /\ [](task = "request" => StatusOf = "none")
    /\ [](task = "created" => StatusOf = "pending")
    /\ [][/\ StatusOf = "none" => StatusOf' \in {"none", "pending"}
          /\ StatusOf = "pending" => StatusOf' \in {"pending", "processing"} \cup Terminal
          /\ StatusOf = "processing" => StatusOf' \in {"processing"} \cup Terminal
          /\ StatusOf \in Terminal => StatusOf' = StatusOf]_vars

\* process_repository has failed and the except clause of the task has written
\* the entry again
C18_Witness ==
    /\ task = "ended"
    /\ pc = "failed"
    /\ StatusOf = "failed"
    /\ repository_status.message # "Failed to generate documentation: OSError"

\* C19: from one update of the entry to the next, the progress does not
\* decrease as long as the job is PENDING or PROCESSING, nor when it becomes
\* COMPLETED.
C19_ProgressNeverDecreases ==
    [][(/\ StatusOf \in {"pending", "processing"}
        /\ StatusOf' \in {"pending", "processing", "completed"})
       => repository_status'.progress >= repository_status.progress]_vars

\* on the clone path alone the progress does not decrease
CloneProgressNeverDecreases ==
    [][(/\ source = "github"
        /\ StatusOf \in {"pending", "processing"}
        /\ StatusOf' \in {"pending", "processing", "completed"})
       => repository_status'.progress >= repository_status.progress]_vars

Started == task \in {"clone", "open", "read", "sleep", "process", "ended"}

\* C20: a job whose task has started ends COMPLETED or FAILED, when every step
\* returns or raises; a task that has ended after an exception has left the
\* job FAILED.
C20_StartedJobsEnd ==
    /\ Started ~> (task = "ended" /\ StatusOf \in Terminal)
    /\ [](task = "ended" /\ pc # "done" => StatusOf = "failed")

\* the upload task has caught an exception of its own steps
C20_Witness ==
    /\ task = "ended"
    /\ source = "file_upload"
    /\ pc = "off"
    /\ StatusOf = "failed"

(***************************************************************************)
(* The requests about a job and the loss of the in-memory entries          *)
(* (get_repository_status in repository_service.py; check_repository_status*)
(* and get_documentation in backend/app/api/endpoints/repository.py).      *)
(*                                                                         *)
(* repository_status is a dictionary of the server process: when the       *)
(* process ends, the entry and the running task are gone, while repo_path, *)
(* the zip file and documentation.json stay on disk.                       *)
(***************************************************************************)

\* variant: a directory without documentation is reported PROCESSING with
\* progress 1.0
GetRepositoryStatus_FullProgress ==
    IF repository_status # <<>> THEN repository_status
    ELSE IF repo_dir
    THEN IF documentation # <<>>
         THEN StatusEntry("completed", 10, "Documentation generated successfully")
         ELSE StatusEntry("processing", 10, "Processing repository...")
    ELSE <<>>

\* get_repository_status: the entry in memory, or else what the directory
\* tells; <<>> is None
GetRepositoryStatus ==
    IF repository_status # <<>> THEN repository_status
    ELSE IF repo_dir
    THEN IF documentation # <<>>
         THEN StatusEntry("completed", 10, "Documentation generated successfully")
         ELSE StatusEntry("processing", 5, "Processing repository...")
    ELSE <<>>

\* what an endpoint answers: the HTTP status code, the status entry it read,
\* the documentation it returns (<<>> when none) and the detail of its error
HttpResponse(op, code, status, content, detail) ==
    [op |-> op, code |-> code, status |-> status, content |-> content, detail |-> detail]

\* check_repository_status
CheckRepositoryStatus ==
    /\ task # "request"
    /\ response' =
           LET status == GetRepositoryStatus
           IN  IF status = <<>>
               THEN HttpResponse("status", 404, <<>>, <<>>, "Repository not found")
               ELSE HttpResponse("status", 200, status, <<>>, "")
    /\ UNCHANGED <<source, task, repo_dir, zip_file, pc, repository_status, documentation,
                   analysisVars, calcVars>>

\* get_documentation; the detail of the 400 answer ends with the status, which
\* the status field holds
GetDocumentation ==
    /\ task # "request"
    /\ response' =
           LET status == GetRepositoryStatus
           IN  IF status = <<>>
               THEN HttpResponse("documentation", 404, <<>>, <<>>, "Repository not found")
               ELSE IF status.status # "completed"
               THEN HttpResponse("documentation", 400, status, <<>>,
                                 "Documentation not ready. Current status: ")
               ELSE IF documentation = <<>>
               THEN HttpResponse("documentation", 404, status, <<>>,
                                 "Documentation file not found")
               ELSE HttpResponse("documentation", 200, status, documentation, "")
    /\ UNCHANGED <<source, task, repo_dir, zip_file, pc, repository_status, documentation,
                   analysisVars, calcVars>>

\* the server process ends and a new one starts: the entry is lost, and a task
\* that had not ended is gone wherever it was
Restart ==
    /\ repository_status # <<>>
    /\ repository_status' = <<>>
    /\ task' = IF task = "ended" THEN "ended" ELSE "killed"
    /\ pc' = IF task = "ended" THEN pc ELSE "off"
    /\ UNCHANGED <<response, source, repo_dir, zip_file, documentation, analysisVars,
                   calcVars>>

NextServe ==
    \/ NextJob
    \/ CheckRepositoryStatus
    \/ GetDocumentation
    \/ Restart

SpecServe == InitJob /\ [][NextServe]_vars

(***************************************************************************)
(* Properties of the requests about a job (SpecServe)                      *)
(***************************************************************************)

\* C21: when the entry in memory is COMPLETED, documentation.json is written;
\* no documentation request finds the status COMPLETED and the file missing,
\* and a request returns documentation only when the status it read is
\* COMPLETED.
C21_CompletedHasDocumentation ==
    /\ StatusOf = "completed" => documentation # <<>>
    /\ (response # <<>> /\ response.op = "documentation") =>
           /\ response.detail # "Documentation file not found"
           /\ response.content # <<>> =>
                  /\ response.code = 200
                  /\ response.status # <<>>
                  /\ response.status.status = "completed"

\* the documentation of a job that is COMPLETED in memory has been returned
C21_Witness ==
    /\ StatusOf = "completed"
    /\ response # <<>>
    /\ response.op = "documentation"
    /\ response.code = 200
    /\ response.content = documentation

\* progress is kept in tenths: 0 is 0.0 and 10 is 1.0
StatusProgressAgree(entry) ==
    /\ entry.status \in {"pending", "processing", "completed", "failed"}
    /\ entry.status = "pending" => entry.progress = 0
    /\ entry.status = "processing" => (0 < entry.progress /\ entry.progress < 10)
    /\ entry.status = "completed" => entry.progress = 10
    /\ entry.status = "failed" => entry.progress = 0

\* C22: status and progress agree in the entry in memory, in what
\* get_repository_status returns (the values it makes up when there is no
\* entry included) and in what a request was answered: PENDING and FAILED
\* with progress 0.0, COMPLETED with 1.0, PROCESSING strictly between.
C22_StatusProgressAgree ==
    /\ repository_status # <<>> => StatusProgressAgree(repository_status)
    /\ GetRepositoryStatus # <<>> => StatusProgressAgree(GetRepositoryStatus)
    /\ (response # <<>> /\ response.status # <<>>) => StatusProgressAgree(response.status)

\* a status request was answered from the directory of a job whose entry is
\* lost and whose documentation is not written
C22_Witness ==
    /\ repository_status = <<>>
    /\ repo_dir
    /\ documentation = <<>>
    /\ response # <<>>
    /\ response.op = "status"
    /\ response.code = 200
    /\ response.status = GetRepositoryStatus

\* the task has ended and process_repository has not returned: an except
\* clause of the task has run, and the entry, as long as it is there, is FAILED
EndedFailed == task = "ended" /\ pc # "done"

\* C23: when the task of a job has ended FAILED, the directory of the job and
\* its zip file are removed and no documentation is left; once the entry is
\* lost, get_repository_status returns None for the job.
C23_FailedJobRemoved ==
    /\ (task = "ended" /\ StatusOf = "failed") => EndedFailed
    /\ (EndedFailed /\ repository_status # <<>>) => StatusOf = "failed"
    /\ EndedFailed => (~repo_dir /\ ~zip_file /\ documentation = <<>>)
    /\ (EndedFailed /\ repository_status = <<>>) => GetRepositoryStatus = <<>>

\* the entry of a job that failed in process_repository is lost and a status
\* request was answered "Repository not found"
C23_Witness ==
    /\ task = "ended"
    /\ pc = "failed"
    /\ repository_status = <<>>
    /\ response # <<>>
    /\ response.op = "status"
    /\ response.code = 404

====
